---- MODULE Spec2Model ----
(***************************************************************************)
(* gremgoser: a Gremlin client that multiplexes the queries of many        *)
(* callers over one WebSocket.  The model covers the transport (Ws), the   *)
(* three loops (writeWorker, readWorker, ping), the request queue, the     *)
(* response tables (results, responseNotifier) and the callers of          *)
(* Execute / Close / Reconnect.                                            *)
(***************************************************************************)
EXTENDS Integers, Sequences, FiniteSets, TLC

(* ------------------------------ bounds -------------------------------- *)
NumCallers == 2          \* goroutines calling Execute and friends
MaxReq == 2              \* request ids handed out by uuid.New(), with server frames
MaxHangReq == 4          \* request ids handed out by uuid.New(), one caller alone
MaxFrames == 2           \* response frames the server sends
MaxClose == 2            \* calls of Close
MaxUri == 1              \* times "/gremlin" is appended to ws.uri
MaxCode == 600           \* status codes 0..MaxCode
MaxStr == 2              \* characters of a string in a request
MaxFields == 3           \* fields of a record handed to AddV
MaxProps == 2            \* entries of an edge property map
MaxElems == 2            \* elements of a vertex response handed to Get
WideBits == 8            \* bits standing for the 64 of int64 and uint64
NarrowBits == 4          \* bits standing for the narrower integer widths

(* ------------------------- program constants -------------------------- *)
QueueCap == 3            \* make(chan []byte, 3)

Callers == 1..NumCallers
IdLimit == IF MaxReq > MaxHangReq THEN MaxReq ELSE MaxHangReq
RIDs == 1..IdLimit
Closers == 1..MaxClose
TemplateId == 0          \* the uuid SetAuthentication puts in AuthReq

StatusCodes == {200, 204, 206, 407, 500}

NoError == "nil"
ErrorWSConnection == "ErrorWSConnection"
ErrorWSConnectionNil == "ErrorWSConnectionNil"
ErrorConnectionDisposed == "ErrorConnectionDisposed"
ErrorNoAuth == "ErrorNoAuth"
SocketError == "socket error"

NoPanic == "none"
PanicCloseOfClosedChannel == "close of closed channel"
PanicSendOnClosedChannel == "send on closed channel"
PanicNilDereference == "nil pointer dereference"

WrapperOps == {"AddV", "UpdateV", "DropV", "AddE", "AddEById",
               "AddEWithProps", "AddEWithPropsById", "DropE", "DropEById"}
DirectOps == {"Execute", "Get"}

VARIABLES
    conn,        \* ws.conn: "nil", "open" or "closed"
    connected,   \* ws.connected
    disposed,    \* ws.disposed
    quit,        \* TRUE once ws.quit is closed
    uri,         \* number of "/gremlin" suffixes on ws.uri
    panicked,    \* the panic that ended the process, or NoPanic
    Errored,     \* c.Errored
    creds,       \* c.conf.AuthReq # nil
    authReqId,   \* c.conf.AuthReq.RequestId
    requests,    \* c.requests, the buffered channel of packaged frames
    sent,        \* frames written to the socket
    wpc, wmsg,   \* writeWorker: position and the frame it holds
    rpc, rmsg,   \* readWorker: position and the frame it holds
    rerr,        \* the error readWorker is publishing
    ppc,         \* ping: position
    results,     \* c.results
    notif,       \* c.responseNotifier: state of the channel stored per id
    pc, rid, result, cerr,   \* callers: position, request id, return values
    nextId,      \* next request id uuid.New() hands out
    clpc,        \* Close calls: position
    apc,         \* Reconnect caller: position
    nframes,     \* frames the server has sent
    handled,     \* per request id, the frames readWorker has handled, in order
    enq,         \* number of frames placed on c.requests so far
    tickets,     \* per frame in c.requests, its rank among the frames placed
    wtick,       \* rank of the frame writeWorker holds, 0 if none
    lastOut,     \* rank of the last frame handed to c.conn.write, 0 if none
    werr,        \* the error writeWorker is publishing
    npc,         \* NewClient: position
    firstErr,    \* the first error received from errs after a plain HTTP answer
    answer,      \* how the server answered the handshakes of NewClient
    redialed,    \* TRUE once Reconnect has dialled after a plain HTTP answer
    fn,          \* the function call under study: "off", "called", "returned"
    arg,         \* its argument
    val          \* its return value

vars == <<conn, connected, disposed, quit, uri, panicked, Errored, creds,
          authReqId, requests, sent, wpc, wmsg, rpc, rmsg, rerr, ppc, results,
          notif, pc, rid, result, cerr, nextId, clpc, apc, nframes, handled,
          enq, tickets, wtick, lastOut, werr, npc, firstErr,
          answer, redialed, fn, arg, val>>

transportVars == <<conn, connected, disposed, quit, uri>>
writerVars == <<wpc, wmsg, werr>>
readerVars == <<rpc, rmsg, rerr>>
tableVars == <<results, notif>>
callerVars == <<pc, rid, result, cerr, nextId>>
ghostVars == <<nframes, handled>>
orderVars == <<enq, tickets, wtick, lastOut>>
sinkVars == <<npc, firstErr, answer, redialed>>
callVars == <<fn, arg, val>>

Alive == panicked = NoPanic

(* ------------------------------ requests ------------------------------ *)
\* base64 is kept symbolic: the encoding of a byte string is the tagged string
Base64 (bytes) == <<"base64", bytes>>

Username == <<1>>
Password == <<2>>

prepareRequest(id) ==
    [requestId |-> id, op |-> "eval", processor |-> "", sasl |-> <<>>]

prepareAuthRequest(requestId, username, password) ==
    [requestId |-> requestId, op |-> "authentication", processor |-> "traversal",
     sasl |-> Base64(<<0>> \o username \o <<0>> \o password)]

NoFrame == [requestId |-> 0, op |-> "", processor |-> "", sasl |-> <<>>]

(* ------------------------------ responses ----------------------------- *)
NoResponse == [requestId |-> 0, code |-> 0, data |-> <<>>]

\* every status of the 2xx class passes as a success
responseDetectError_Class(code) ==
    CASE code \in 200..299 -> NoError
      [] code = 401 -> "Error401Unauthorized"
      [] code = 407 -> "Error407Authenticate"
      [] code = 498 -> "Error498MalformedRequest"
      [] code = 499 -> "Error499InvalidRequestArguments"
      [] code = 500 -> "Error500ServerError"
      [] code = 597 -> "Error597ScriptEvaluationError"
      [] code = 598 -> "Error598ServerTimeout"
      [] code = 599 -> "Error599ServerSerializationError"
      [] OTHER -> "ErrorUnknownCode"

responseDetectError(code) ==
    CASE code = 200 -> NoError
      [] code = 204 -> NoError
      [] code = 206 -> NoError
      [] code = 401 -> "Error401Unauthorized"
      [] code = 407 -> "Error407Authenticate"
      [] code = 498 -> "Error498MalformedRequest"
      [] code = 499 -> "Error499InvalidRequestArguments"
      [] code = 500 -> "Error500ServerError"
      [] code = 597 -> "Error597ScriptEvaluationError"
      [] code = 598 -> "Error598ServerTimeout"
      [] code = 599 -> "Error599ServerSerializationError"
      [] OTHER -> "ErrorUnknownCode"

Absent == [ok |-> FALSE, data |-> <<>>]
Present(d) == [ok |-> TRUE, data |-> d]

Store(table, id, d) == [table EXCEPT ![id] = Present(d)]
Delete(table, id) == [table EXCEPT ![id] = Absent]

\* the concatenation of the result.data arrays of a sequence of frames
RECURSIVE Concat(_)
Concat(frames) ==
    IF frames = <<>> THEN <<>>
    ELSE frames[1].data \o Concat(Tail(frames))

Codes(frames) == [i \in 1..Len(frames) |-> frames[i].code]

(* ------------------------------- Init --------------------------------- *)
\* ping: the top of the loop publishes ErrorWSConnectionNil on an absent socket
PingTop == IF conn = "nil" THEN "nilerr" ELSE "select"

\* no function call is under study
NoCall == fn = "off" /\ arg = <<>> /\ val = <<>>

\* The state NewClient leaves behind: the handshake succeeded, or it was
\* answered by a plain HTTP response and the socket is absent.
Constructed ==
    /\ conn \in {"open", "nil"}
    /\ connected = (conn = "open")
    /\ disposed = FALSE
    /\ quit = FALSE
    /\ uri = 0
    /\ panicked = NoPanic
    /\ Errored = FALSE
    /\ creds \in BOOLEAN
    /\ authReqId = TemplateId
    /\ requests = <<>>
    /\ sent = {}
    /\ wpc = "select" /\ wmsg = NoFrame /\ werr = NoError
    /\ rpc = "read" /\ rmsg = NoResponse /\ rerr = NoError
    /\ ppc = PingTop
    /\ results = [r \in RIDs |-> Absent]
    /\ notif = [r \in RIDs |-> "none"]
    /\ pc = [c \in Callers |-> "idle"]
    /\ rid = [c \in Callers |-> 0]
    /\ result = [c \in Callers |-> <<>>]
    /\ cerr = [c \in Callers |-> NoError]
    /\ nextId = 1
    /\ clpc = [k \in Closers |-> "idle"]
    /\ apc = "idle"
    /\ nframes = 0
    /\ handled = [r \in RIDs |-> <<>>]
    /\ enq = 0 /\ tickets = <<>> /\ wtick = 0 /\ lastOut = 0
    /\ npc = "returned" /\ firstErr = NoError
    /\ answer = (IF conn = "open" THEN "upgrade" ELSE "http")
    /\ redialed = FALSE

Init == Constructed /\ NoCall

(* ------------------------------ transport ----------------------------- *)
isDisposed == disposed
isConnected == connected

\* connect reports an error whenever both handshakes fail
connectError_AnyFailure(first, second, resp) ==
    IF ~first /\ ~second THEN ErrorWSConnection ELSE NoError

\* Ws.connect: dial the uri; on any failure append "/gremlin" and dial once
\* more.  first, second: does the first / second handshake succeed; resp: was
\* an HTTP response observed on the failed second handshake.
connectError(first, second, resp) ==
    IF ~first /\ ~second /\ ~resp THEN ErrorWSConnection ELSE NoError

\* a handshake that resets the transport as if it were new
connect_Fresh(first, second, resp) ==
    /\ first \/ uri < MaxUri
    /\ uri' = IF first THEN uri ELSE uri + 1
    /\ conn' = IF first \/ second THEN "open" ELSE "nil"
    /\ connected' = IF first \/ second THEN TRUE ELSE connected
    /\ disposed' = IF first \/ second THEN FALSE ELSE disposed
    /\ UNCHANGED quit

connect(first, second, resp) ==
    /\ first \/ uri < MaxUri
    /\ uri' = IF first THEN uri ELSE uri + 1
    /\ conn' = IF first \/ second THEN "open" ELSE "nil"
    /\ connected' = IF first \/ second THEN TRUE ELSE connected
    /\ UNCHANGED <<disposed, quit>>

\* the channel receive <-errs by the holder of the error channel; firstErr
\* keeps the first error received while the plain HTTP answer to the
\* handshakes of NewClient stands, that is until Reconnect dials again
Receive(err) ==
    /\ firstErr' = IF firstErr = NoError /\ answer = "http" /\ ~redialed
                   THEN err ELSE firstErr
    /\ UNCHANGED <<npc, answer, redialed>>

\* a call of Client.Reconnect begins
ReconnectCall ==
    /\ Alive
    /\ apc = "idle"
    /\ apc' = "called"
    /\ UNCHANGED <<transportVars, panicked, Errored, creds, authReqId, requests, sent,
                   writerVars, readerVars, ppc, tableVars, callerVars, clpc,
                   ghostVars, orderVars, sinkVars, callVars>>

\* a Reconnect that dials whatever the state of the transport
shouldConnect_Always == TRUE

\* Reconnect: if !c.conn.isConnected()
shouldConnect == ~isConnected

\* Client.Reconnect: if !c.conn.isConnected() { err := c.conn.connect() ... };
\* an error is published on errs
Reconnect ==
    /\ Alive
    /\ apc = "called"
    /\ IF shouldConnect
       THEN /\ \E first, second, resp \in BOOLEAN :
                  /\ connect(first, second, resp)
                  /\ apc' = IF connectError(first, second, resp) # NoError
                            THEN "err" ELSE "idle"
            /\ redialed' = (redialed \/ answer = "http")
       ELSE /\ apc' = "idle"
            /\ UNCHANGED <<transportVars, redialed>>
    /\ UNCHANGED <<panicked, Errored, creds, authReqId, requests, sent, writerVars,
                   readerVars, ppc, tableVars, callerVars, clpc, ghostVars, orderVars,
                   npc, firstErr, answer, callVars>>

\* errs <- err of Reconnect is received
ReconnectErrDelivered ==
    /\ Alive
    /\ apc = "err"
    /\ apc' = "idle"
    /\ Receive(ErrorWSConnection)
    /\ UNCHANGED <<transportVars, panicked, Errored, creds, authReqId, requests, sent,
                   writerVars, readerVars, ppc, tableVars, callerVars, clpc,
                   ghostVars, orderVars, callVars>>

\* Ws.pongHandler, run by the socket read when a pong arrives
pongHandler ==
    /\ Alive
    /\ rpc = "read"
    /\ conn = "open"
    /\ connected' = TRUE
    /\ UNCHANGED <<conn, disposed, quit, uri, panicked, Errored, creds, authReqId,
                   requests, sent, writerVars, readerVars, ppc, tableVars, callerVars,
                   clpc, apc, ghostVars, orderVars, sinkVars, callVars>>

\* a close that does not test the socket
closeError_Unchecked(socket) == NoError

\* Ws.close: if ws.conn == nil { return ErrorWSConnectionNil }, before the
\* deferred function is registered; otherwise the error of writing the
\* close frame, which Client.Close drops
closeError(socket) == IF socket = "nil" THEN ErrorWSConnectionNil ELSE NoError

\* Ws.close, first part: an absent socket returns ErrorWSConnectionNil, else
\* the close frame is written (its error is the return value)
CloseStart(k) ==
    /\ Alive
    /\ clpc[k] = "idle"
    /\ clpc' = [clpc EXCEPT ![k] = IF closeError(conn) = ErrorWSConnectionNil
                                   THEN "returned" ELSE "closing"]
    /\ UNCHANGED <<transportVars, panicked, Errored, creds, authReqId, requests, sent,
                   writerVars, readerVars, ppc, tableVars, callerVars, apc,
                   ghostVars, orderVars, sinkVars, callVars>>

\* Ws.close, deferred function: close(ws.quit)
CloseQuit(k) ==
    /\ Alive
    /\ clpc[k] = "closing"
    /\ IF quit
       THEN /\ panicked' = PanicCloseOfClosedChannel
            /\ UNCHANGED <<quit, clpc>>
       ELSE /\ quit' = TRUE
            /\ clpc' = [clpc EXCEPT ![k] = "quitclosed"]
            /\ UNCHANGED panicked
    /\ UNCHANGED <<conn, connected, disposed, uri, Errored, creds, authReqId, requests,
                   sent, writerVars, readerVars, ppc, tableVars, callerVars, apc,
                   ghostVars, orderVars, sinkVars, callVars>>

\* Ws.close, deferred function: ws.conn.Close()
CloseSocket(k) ==
    /\ Alive
    /\ clpc[k] = "quitclosed"
    /\ IF conn = "nil"
       THEN /\ panicked' = PanicNilDereference
            /\ UNCHANGED <<conn, clpc>>
       ELSE /\ conn' = "closed"
            /\ clpc' = [clpc EXCEPT ![k] = "sockclosed"]
            /\ UNCHANGED panicked
    /\ UNCHANGED <<connected, disposed, quit, uri, Errored, creds, authReqId, requests,
                   sent, writerVars, readerVars, ppc, tableVars, callerVars, apc,
                   ghostVars, orderVars, sinkVars, callVars>>

\* Ws.close, deferred function: ws.disposed = true, and the return
CloseDisposed(k) ==
    /\ Alive
    /\ clpc[k] = "sockclosed"
    /\ disposed' = TRUE
    /\ clpc' = [clpc EXCEPT ![k] = "returned"]
    /\ UNCHANGED <<conn, connected, quit, uri, panicked, Errored, creds, authReqId,
                   requests, sent, writerVars, readerVars, ppc, tableVars, callerVars,
                   apc, ghostVars, orderVars, sinkVars, callVars>>

(* ------------------------------ writeWorker --------------------------- *)
\* a receive that takes the frame placed last
receiveIndex_Newest(queue) == Len(queue)

\* <-c.requests: a buffered channel hands out the element placed first
receiveIndex(queue) == 1

\* the channel buffer without its element at position i
Remove(queue, i) == SubSeq(queue, 1, i - 1) \o SubSeq(queue, i + 1, Len(queue))

\* a send on the channel never waits
hasRoom_Unbounded(queue) == TRUE

\* c.requests = make(chan []byte, 3): a send proceeds while the buffer holds
\* fewer than its capacity and waits otherwise
hasRoom(queue) == Len(queue) < QueueCap

\* c.requests <- msg
Send(msg) ==
    /\ requests' = Append(requests, msg)
    /\ tickets' = Append(tickets, enq + 1)
    /\ enq' = enq + 1
    /\ UNCHANGED <<wtick, lastOut>>

\* case msg := <-c.requests
WriterTake ==
    /\ Alive
    /\ wpc = "select"
    /\ requests # <<>>
    /\ wmsg' = requests[receiveIndex(requests)]
    /\ requests' = Remove(requests, receiveIndex(requests))
    /\ wtick' = tickets[receiveIndex(requests)]
    /\ tickets' = Remove(tickets, receiveIndex(requests))
    /\ wpc' = "write"
    /\ UNCHANGED <<transportVars, panicked, Errored, creds, authReqId, sent, werr,
                   readerVars, ppc, tableVars, callerVars, clpc, apc, ghostVars,
                   enq, lastOut, sinkVars, callVars>>

\* c.conn.write(msg) succeeds: the frame is on the socket
WriterWriteOk ==
    /\ Alive
    /\ wpc = "write"
    /\ conn = "open"
    /\ sent' = sent \cup {wmsg}
    /\ wmsg' = NoFrame
    /\ lastOut' = wtick
    /\ wtick' = 0
    /\ wpc' = "select"
    /\ UNCHANGED <<transportVars, panicked, Errored, creds, authReqId, requests, werr,
                   readerVars, ppc, tableVars, callerVars, clpc, apc, ghostVars,
                   enq, tickets, sinkVars, callVars>>

\* c.conn.write(msg) fails (absent socket, closed socket, deadline, network):
\* the writer goes on to publish the error
WriterWriteErr ==
    /\ Alive
    /\ wpc = "write"
    /\ wmsg' = NoFrame
    /\ lastOut' = wtick
    /\ wtick' = 0
    /\ werr' = IF conn = "nil" THEN ErrorWSConnectionNil ELSE SocketError
    /\ wpc' = "err"
    /\ UNCHANGED <<transportVars, panicked, Errored, creds, authReqId, requests, sent,
                   readerVars, ppc, tableVars, callerVars, clpc, apc, ghostVars,
                   enq, tickets, sinkVars, callVars>>

\* errs <- err is received: c.Errored = true; break leaves the select only
WriterErrDelivered ==
    /\ Alive
    /\ wpc = "err"
    /\ Receive(werr)
    /\ werr' = NoError
    /\ Errored' = TRUE
    /\ wpc' = "select"
    /\ UNCHANGED <<transportVars, panicked, creds, authReqId, requests, sent, wmsg,
                   readerVars, ppc, tableVars, callerVars, clpc, apc, ghostVars,
                   orderVars, callVars>>

\* case <-quit: return
WriterQuit ==
    /\ Alive
    /\ wpc = "select"
    /\ quit
    /\ wpc' = "done"
    /\ UNCHANGED <<transportVars, panicked, Errored, creds, authReqId, requests, sent,
                   wmsg, werr, readerVars, ppc, tableVars, callerVars, clpc, apc,
                   ghostVars, orderVars, sinkVars, callVars>>

(* --------------------------------- ping ------------------------------- *)
\* errs <- ErrorWSConnectionNil at the top of the loop is received
PingNilErrDelivered ==
    /\ Alive
    /\ ppc = "nilerr"
    /\ Receive(ErrorWSConnectionNil)
    /\ ppc' = "select"
    /\ UNCHANGED <<transportVars, panicked, Errored, creds, authReqId, requests, sent,
                   writerVars, readerVars, tableVars, callerVars, clpc, apc,
                   ghostVars, orderVars, callVars>>

\* the flag stays true whatever WriteControl returned
pingConnected_Sticky(err) == TRUE

\* ping: isConnected = true; if err != nil { ...; isConnected = false };
\* ws.connected = isConnected
pingConnected(err) == err = NoError

\* case <-ticker.C: WriteControl succeeds, ws.connected = true
PingOk ==
    /\ Alive
    /\ ppc = "select"
    /\ conn = "open"
    /\ connected' = pingConnected(NoError)
    /\ ppc' = PingTop
    /\ UNCHANGED <<conn, disposed, quit, uri, panicked, Errored, creds, authReqId,
                   requests, sent, writerVars, readerVars, tableVars, callerVars, clpc,
                   apc, ghostVars, orderVars, sinkVars, callVars>>

\* case <-ticker.C: WriteControl fails, or is called on the absent socket
PingFail ==
    /\ Alive
    /\ ppc = "select"
    /\ IF conn = "nil"
       THEN panicked' = PanicNilDereference /\ UNCHANGED ppc
       ELSE ppc' = "pingerr" /\ UNCHANGED panicked
    /\ UNCHANGED <<transportVars, Errored, creds, authReqId, requests, sent, writerVars,
                   readerVars, tableVars, callerVars, clpc, apc, ghostVars,
                   orderVars, sinkVars, callVars>>

\* errs <- err of the failed ping is received: ws.connected = false
PingErrDelivered ==
    /\ Alive
    /\ ppc = "pingerr"
    /\ Receive(SocketError)
    /\ connected' = pingConnected(SocketError)
    /\ ppc' = PingTop
    /\ UNCHANGED <<conn, disposed, quit, uri, panicked, Errored, creds, authReqId,
                   requests, sent, writerVars, readerVars, tableVars, callerVars, clpc,
                   apc, ghostVars, orderVars, callVars>>

\* case <-ws.quit: return
PingQuit ==
    /\ Alive
    /\ ppc = "select"
    /\ quit
    /\ ppc' = "done"
    /\ UNCHANGED <<transportVars, panicked, Errored, creds, authReqId, requests, sent,
                   writerVars, readerVars, tableVars, callerVars, clpc, apc,
                   ghostVars, orderVars, sinkVars, callVars>>

(* ------------------------------ readWorker ---------------------------- *)
\* the request ids the server has received an eval frame for
Known == {f.requestId : f \in {g \in sent : g.op = "eval"}}

\* the result.data a frame with this status may carry; a record is tagged
\* with the request id it answers and the serial number of its frame
FrameData(r, code) ==
    IF code \in {200, 206} THEN {<<>>, << <<r, nframes + 1>> >>} ELSE {<<>>}

\* c.conn.read() returns a frame the server sent in answer to a request
ReaderRead ==
    /\ Alive
    /\ rpc = "read"
    /\ conn = "open"
    /\ nframes < MaxFrames
    /\ \E r \in Known, code \in StatusCodes :
         \E d \in FrameData(r, code) :
            rmsg' = [requestId |-> r, code |-> code, data |-> d]
    /\ nframes' = nframes + 1
    /\ rpc' = "handle"
    /\ UNCHANGED <<transportVars, panicked, Errored, creds, authReqId, requests, sent,
                   writerVars, rerr, ppc, tableVars, callerVars, clpc, apc,
                   handled, orderVars, sinkVars, callVars>>

\* c.conn.read() fails: ErrorWSConnectionNil on an absent socket, else the
\* error of the socket (closed, read deadline, network)
ReaderReadErr ==
    /\ Alive
    /\ rpc = "read"
    /\ rerr' = IF conn = "nil" THEN ErrorWSConnectionNil ELSE SocketError
    /\ rpc' = "readerr"
    /\ UNCHANGED <<transportVars, panicked, Errored, creds, authReqId, requests, sent,
                   writerVars, rmsg, ppc, tableVars, callerVars, clpc, apc,
                   ghostVars, orderVars, sinkVars, callVars>>

\* errs <- err of the failed read is received: c.Errored = true; break
ReaderReadErrDelivered ==
    /\ Alive
    /\ rpc = "readerr"
    /\ Receive(rerr)
    /\ Errored' = TRUE
    /\ rerr' = NoError
    /\ rpc' = "done"
    /\ UNCHANGED <<transportVars, panicked, creds, authReqId, requests, sent,
                   writerVars, rmsg, ppc, tableVars, callerVars, clpc, apc,
                   ghostVars, orderVars, callVars>>

\* marshalResponse: the error of the frame's status code
marshalResponse(resp) == responseDetectError(resp.code)

Log(resp) == [handled EXCEPT ![resp.requestId] = Append(@, resp)]

\* handleResponse, status is an error other than 407: return err, which
\* readWorker publishes on errs
handleResponseError ==
    /\ Alive
    /\ rpc = "handle"
    /\ marshalResponse(rmsg) \notin {NoError, "Error407Authenticate"}
    /\ rerr' = marshalResponse(rmsg)
    /\ rmsg' = NoResponse
    /\ rpc' = "handleerr"
    /\ handled' = Log(rmsg)
    /\ UNCHANGED <<transportVars, panicked, Errored, creds, authReqId, requests, sent,
                   writerVars, ppc, tableVars, callerVars, clpc, apc, nframes,
                   orderVars, sinkVars, callVars>>

\* errs <- err of handleResponse is received
ReaderHandleErrDelivered ==
    /\ Alive
    /\ rpc = "handleerr"
    /\ Receive(rerr)
    /\ rerr' = NoError
    /\ rpc' = "check"
    /\ UNCHANGED <<transportVars, panicked, Errored, creds, authReqId, requests, sent,
                   writerVars, rmsg, ppc, tableVars, callerVars, clpc, apc,
                   ghostVars, orderVars, callVars>>

\* the template is packaged without its RequestId being rewritten
authRequestId_Stale(requestId) == authReqId

\* authenticate: c.conf.AuthReq.RequestId = requestId
authRequestId(requestId) == requestId

\* authenticate: packageRequest(c.conf.AuthReq), the frame json.Marshal
\* produces at that moment
authenticateFrame(requestId) ==
    prepareAuthRequest(authRequestId(requestId), Username, Password)

\* handleResponse, status 407: authenticate(resp.RequestId); without
\* credentials c.conf.AuthReq is nil and the assignment dereferences it
authenticate ==
    /\ Alive
    /\ rpc = "handle"
    /\ rmsg.code = 407
    /\ IF ~creds
       THEN /\ panicked' = PanicNilDereference
            /\ UNCHANGED <<authReqId, requests, rpc, rmsg, handled, orderVars>>
       ELSE /\ hasRoom(requests)
            /\ authReqId' = authenticateFrame(rmsg.requestId).requestId
            /\ Send(authenticateFrame(rmsg.requestId))
            /\ rmsg' = NoResponse
            /\ rpc' = "check"
            /\ handled' = Log(rmsg)
            /\ UNCHANGED panicked
    /\ UNCHANGED <<transportVars, Errored, creds, sent, writerVars, rerr, ppc,
                   tableVars, callerVars, clpc, apc, nframes, sinkVars, callVars>>

\* every response is stored under one key
saveKey_Shared(resp) == 1

\* saveResponse: the key the data and the notifier are stored under
saveKey(resp) == resp.requestId

\* the new data replaces the buffer
appendData_Overwrite(container, data) == data

\* saveResponse: container = append(container, val) for each val of the data
appendData(container, data) == container \o data

\* every frame signals its notifier
signals_Always(resp) == TRUE

\* saveResponse: the frame signals its notifier unless it is partial
signals(resp) == resp.code # 206

\* handleResponse, status 200/204/206: saveResponse.  The send on a full
\* notifier blocks with respMutex held; on a closed one it panics.
saveResponse ==
    /\ Alive
    /\ rpc = "handle"
    /\ marshalResponse(rmsg) = NoError
    /\ LET id == saveKey(rmsg)
           container == IF results[id].ok THEN results[id].data ELSE <<>>
           ch == IF notif[id] = "none" THEN "empty" ELSE notif[id]
       IN  /\ results' = Store(results, id, appendData(container, rmsg.data))
           /\ handled' = Log(rmsg)
           /\ IF ~signals(rmsg)
              THEN /\ notif' = [notif EXCEPT ![id] = ch]
                   /\ rpc' = "check"
                   /\ rmsg' = NoResponse
                   /\ UNCHANGED panicked
              ELSE CASE ch = "empty" ->
                          /\ notif' = [notif EXCEPT ![id] = "full"]
                          /\ rpc' = "check"
                          /\ rmsg' = NoResponse
                          /\ UNCHANGED panicked
                     [] ch = "full" ->
                          /\ rpc' = "sendblocked"
                          /\ UNCHANGED <<notif, rmsg, panicked>>
                     [] OTHER ->
                          /\ panicked' = PanicSendOnClosedChannel
                          /\ UNCHANGED <<notif, rmsg, rpc>>
    /\ UNCHANGED <<transportVars, Errored, creds, authReqId, requests, sent,
                   writerVars, rerr, ppc, callerVars, clpc, apc, nframes,
                   orderVars, sinkVars, callVars>>

\* select { case <-quit: return; default: continue }
ReaderCheckQuit ==
    /\ Alive
    /\ rpc = "check"
    /\ rpc' = IF quit THEN "done" ELSE "read"
    /\ UNCHANGED <<transportVars, panicked, Errored, creds, authReqId, requests, sent,
                   writerVars, rmsg, rerr, ppc, tableVars, callerVars, clpc, apc,
                   ghostVars, orderVars, sinkVars, callVars>>

(* ------------------------------- callers ------------------------------ *)
Rest == {"idle", "done", "timedout", "failed"}

\* calls that have passed a disposed check and have not drawn their id yet
Starting == {c \in Callers : pc[c] \in {"wrapped", "checked"}}

Fail(c) ==
    /\ pc' = [pc EXCEPT ![c] = "failed"]
    /\ cerr' = [cerr EXCEPT ![c] = ErrorConnectionDisposed]
    /\ result' = [result EXCEPT ![c] = <<>>]
    /\ rid' = [rid EXCEPT ![c] = 0]

Pass(c, to) ==
    /\ pc' = [pc EXCEPT ![c] = to]
    /\ cerr' = [cerr EXCEPT ![c] = NoError]
    /\ result' = [result EXCEPT ![c] = <<>>]
    /\ rid' = [rid EXCEPT ![c] = 0]

\* AddV, UpdateV, DropV, AddE..., DropE...: the isDisposed check that opens
\* the operation; the query is built next and handed to Execute
OperationCheck(c, limit) ==
    /\ Alive
    /\ pc[c] \in Rest
    /\ \E op \in WrapperOps :
          IF isDisposed
          THEN Fail(c)
          ELSE /\ nextId + Cardinality(Starting) <= limit
               /\ Pass(c, "wrapped")
    /\ UNCHANGED <<transportVars, panicked, Errored, creds, authReqId, requests, sent,
                   writerVars, readerVars, ppc, tableVars, nextId, clpc, apc,
                   ghostVars, orderVars, sinkVars, callVars>>

\* Execute, Get: the isDisposed check, called directly or by an operation
ExecuteCheck(c, limit) ==
    /\ Alive
    /\ pc[c] \in Rest \cup {"wrapped"}
    /\ \E op \in DirectOps :
          IF isDisposed
          THEN Fail(c)
          ELSE /\ pc[c] = "wrapped" \/ nextId + Cardinality(Starting) <= limit
               /\ Pass(c, "checked")
    /\ UNCHANGED <<transportVars, panicked, Errored, creds, authReqId, requests, sent,
                   writerVars, readerVars, ppc, tableVars, nextId, clpc, apc,
                   ghostVars, orderVars, sinkVars, callVars>>

\* the request is dispatched without a notifier of its own
registerNotifier_Skipped(table, id) == table

\* executeRequest: c.responseNotifier.Store(id, make(chan int, 1)), the
\* statement before c.dispatchRequest(msg)
registerNotifier(table, id) == [table EXCEPT ![id] = "empty"]

\* executeRequest: prepareRequest draws a fresh id, packageRequest, and
\* c.responseNotifier.Store(id, make(chan int, 1))
executeRequest(c) ==
    /\ Alive
    /\ pc[c] = "checked"
    /\ rid' = [rid EXCEPT ![c] = nextId]
    /\ nextId' = nextId + 1
    /\ notif' = registerNotifier(notif, nextId)
    /\ pc' = [pc EXCEPT ![c] = "stored"]
    /\ UNCHANGED <<transportVars, panicked, Errored, creds, authReqId, requests, sent,
                   writerVars, readerVars, ppc, results, result, cerr, clpc, apc,
                   ghostVars, orderVars, sinkVars, callVars>>

\* dispatchRequest: c.requests <- msg, blocking while the queue is full
dispatchRequest(c) ==
    /\ Alive
    /\ pc[c] = "stored"
    /\ hasRoom(requests)
    /\ Send(prepareRequest(rid[c]))
    /\ pc' = [pc EXCEPT ![c] = "waiting"]
    /\ UNCHANGED <<transportVars, panicked, Errored, creds, authReqId, sent, writerVars,
                   readerVars, ppc, tableVars, rid, result, cerr, nextId, clpc, apc,
                   ghostVars, sinkVars, callVars>>

\* retrieveResponse: case n := <-resp.  A sender blocked on the full channel
\* completes its send as the value is taken.
retrieveReceive(c) ==
    /\ Alive
    /\ pc[c] = "waiting"
    /\ notif[rid[c]] = "full"
    /\ IF rpc = "sendblocked" /\ saveKey(rmsg) = rid[c]
       THEN /\ rpc' = "check"
            /\ rmsg' = NoResponse
            /\ UNCHANGED notif
       ELSE /\ notif' = [notif EXCEPT ![rid[c]] = "empty"]
            /\ UNCHANGED <<rpc, rmsg>>
    /\ pc' = [pc EXCEPT ![c] = "received"]
    /\ UNCHANGED <<transportVars, panicked, Errored, creds, authReqId, requests, sent,
                   writerVars, rerr, ppc, results, rid, result, cerr, nextId, clpc, apc,
                   ghostVars, orderVars, sinkVars, callVars>>

\* the timeout branch returns what has been buffered so far
timeoutResult_Buffered(c) ==
    IF results[rid[c]].ok THEN results[rid[c]].data ELSE <<>>

\* retrieveResponse: what the timeout branch returns
timeoutResult(c) == <<>>

\* retrieveResponse: case <-timeout: return nil; executeRequest returns it
\* with a nil error
retrieveTimeout(c) ==
    /\ Alive
    /\ pc[c] = "waiting"
    /\ result' = [result EXCEPT ![c] = timeoutResult(c)]
    /\ cerr' = [cerr EXCEPT ![c] = NoError]
    /\ pc' = [pc EXCEPT ![c] = "timedout"]
    /\ UNCHANGED <<transportVars, panicked, Errored, creds, authReqId, requests, sent,
                   writerVars, readerVars, ppc, tableVars, rid, nextId, clpc, apc,
                   ghostVars, orderVars, sinkVars, callVars>>

\* retrieveResponse: dataI, ok := c.results.Load(id)
retrieveLoad(c) ==
    /\ Alive
    /\ pc[c] = "received"
    /\ IF results[rid[c]].ok
       THEN /\ result' = [result EXCEPT ![c] = results[rid[c]].data]
            /\ pc' = [pc EXCEPT ![c] = "loaded"]
       ELSE /\ result' = [result EXCEPT ![c] = <<>>]
            /\ pc' = [pc EXCEPT ![c] = "done"]
    /\ UNCHANGED <<transportVars, panicked, Errored, creds, authReqId, requests, sent,
                   writerVars, readerVars, ppc, tableVars, rid, cerr, nextId, clpc, apc,
                   ghostVars, orderVars, sinkVars, callVars>>

\* retrieveResponse: close(resp.(chan int))
retrieveClose(c) ==
    /\ Alive
    /\ pc[c] = "loaded"
    /\ notif' = [notif EXCEPT ![rid[c]] = "closed"]
    /\ pc' = [pc EXCEPT ![c] = "closed"]
    /\ UNCHANGED <<transportVars, panicked, Errored, creds, authReqId, requests, sent,
                   writerVars, readerVars, ppc, results, rid, result, cerr, nextId, clpc,
                   apc, ghostVars, orderVars, sinkVars, callVars>>

\* retrieveResponse: c.responseNotifier.Delete(id); c.deleteResponse(id); return
deleteResponse(c) ==
    /\ Alive
    /\ pc[c] = "closed"
    /\ notif' = [notif EXCEPT ![rid[c]] = "none"]
    /\ results' = Delete(results, rid[c])
    /\ pc' = [pc EXCEPT ![c] = "done"]
    /\ UNCHANGED <<transportVars, panicked, Errored, creds, authReqId, requests, sent,
                   writerVars, readerVars, ppc, rid, result, cerr, nextId, clpc, apc,
                   ghostVars, orderVars, sinkVars, callVars>>

(* --------------------------- specifications --------------------------- *)
\* The correlation engine: callers, the request queue, writeWorker,
\* readWorker and the frames of the server.
Writer ==
    \/ WriterTake
    \/ WriterWriteOk
    \/ WriterWriteErr
    \/ WriterErrDelivered

ReaderSocket ==
    \/ ReaderReadErr
    \/ ReaderReadErrDelivered

ReaderFrames ==
    \/ ReaderRead
    \/ handleResponseError
    \/ ReaderHandleErrDelivered
    \/ authenticate
    \/ saveResponse
    \/ ReaderCheckQuit

Call(c, limit) ==
    \/ OperationCheck(c, limit)
    \/ ExecuteCheck(c, limit)
    \/ executeRequest(c)
    \/ dispatchRequest(c)
    \/ retrieveTimeout(c)

Retrieve(c) ==
    \/ retrieveReceive(c)
    \/ retrieveLoad(c)
    \/ retrieveClose(c)
    \/ deleteResponse(c)

Next ==
    \/ Writer
    \/ ReaderSocket
    \/ ReaderFrames
    \/ \E c \in Callers : Call(c, MaxReq)
    \/ \E c \in Callers : Retrieve(c)

Spec == Init /\ [][Next]_vars

\* The life cycle of the transport: Close, Reconnect, ping and pong, the
\* loops and their exit on quit, and one caller in front of a silent server.
\* The client has no credentials.  Close calls are numbered in the order in
\* which they start.
LifeCallers == {1}

LifeInit == Init /\ ~creds

Closing(k) ==
    \/ CloseStart(k)
    \/ CloseQuit(k)
    \/ CloseSocket(k)
    \/ CloseDisposed(k)

InOrder(k) == IF k = 1 THEN TRUE ELSE clpc[k - 1] # "idle"

Pinger ==
    \/ PingNilErrDelivered
    \/ PingOk
    \/ PingFail
    \/ PingErrDelivered
    \/ PingQuit

LifeNext ==
    \/ ReconnectCall
    \/ Reconnect
    \/ ReconnectErrDelivered
    \/ pongHandler
    \/ \E k \in Closers : InOrder(k) /\ Closing(k)
    \/ Pinger
    \/ Writer
    \/ WriterQuit
    \/ ReaderSocket
    \/ \E c \in LifeCallers : Call(c, MaxReq)

LifeSpec == LifeInit /\ [][LifeNext]_vars

(* ------------------------------ NewClient ----------------------------- *)
\* the answer of the server to the handshakes of one connect
Answer(first, second, resp) ==
    IF first \/ second THEN "upgrade" ELSE IF resp THEN "http" ELSE "failed"

\* NewClient is called: no socket, no loop is running yet
NewInit ==
    /\ conn = "nil" /\ connected = FALSE /\ disposed = FALSE /\ quit = FALSE
    /\ uri = 0
    /\ panicked = NoPanic
    /\ Errored = FALSE
    /\ creds = FALSE
    /\ authReqId = TemplateId
    /\ requests = <<>>
    /\ sent = {}
    /\ wpc = "off" /\ wmsg = NoFrame /\ werr = NoError
    /\ rpc = "off" /\ rmsg = NoResponse /\ rerr = NoError
    /\ ppc = "off"
    /\ results = [r \in RIDs |-> Absent]
    /\ notif = [r \in RIDs |-> "none"]
    /\ pc = [c \in Callers |-> "idle"]
    /\ rid = [c \in Callers |-> 0]
    /\ result = [c \in Callers |-> <<>>]
    /\ cerr = [c \in Callers |-> NoError]
    /\ nextId = 1
    /\ clpc = [k \in Closers |-> "idle"]
    /\ apc = "idle"
    /\ nframes = 0
    /\ handled = [r \in RIDs |-> <<>>]
    /\ enq = 0 /\ tickets = <<>> /\ wtick = 0 /\ lastOut = 0
    /\ npc = "called" /\ firstErr = NoError
    /\ answer = "none"
    /\ redialed = FALSE
    /\ NoCall

\* NewClient, conf.URI == "": errs <- ErrorInvalidURI on the unbuffered channel
\* made two lines above.  The channel is handed to the caller only by the
\* return statement that follows the send, so the send has no receiver.
NewClientInvalidURI ==
    /\ Alive
    /\ npc = "called"
    /\ npc' = "sendInvalidURI"
    /\ UNCHANGED <<transportVars, panicked, Errored, creds, authReqId, requests, sent,
                   writerVars, readerVars, ppc, tableVars, callerVars, clpc, apc,
                   ghostVars, orderVars, firstErr, answer, redialed, callVars>>

\* NewClient, conf.URI is set: c.conn.connect(); on an error of connect
\* errs <- ErrorWSConnection, on the same channel without a receiver;
\* otherwise go writeWorker, go readWorker, go ping and return c, c.errs
NewClientConnect ==
    /\ Alive
    /\ npc = "called"
    /\ \E first, second, resp \in BOOLEAN :
          /\ connect(first, second, resp)
          /\ answer' = Answer(first, second, resp)
          /\ IF connectError(first, second, resp) # NoError
             THEN /\ npc' = "sendWSConnection"
                  /\ UNCHANGED <<wpc, rpc, ppc>>
             ELSE /\ npc' = "returned"
                  /\ wpc' = "select"
                  /\ rpc' = "read"
                  /\ ppc' = IF first \/ second THEN "select" ELSE "nilerr"
    /\ UNCHANGED <<panicked, Errored, creds, authReqId, requests, sent, wmsg, werr,
                   rmsg, rerr, tableVars, callerVars, clpc, apc, ghostVars, orderVars,
                   firstErr, redialed, callVars>>

\* the client can be used once NewClient has returned it
NewNext ==
    \/ NewClientInvalidURI
    \/ NewClientConnect
    \/ npc = "returned" /\ LifeNext

NewSpec == NewInit /\ [][NewNext]_vars

(* --------------------------- function calls --------------------------- *)
\* the client while a function is studied on its own
clientVars ==
    <<transportVars, panicked, Errored, creds, authReqId, requests, sent, writerVars,
      readerVars, ppc, tableVars, callerVars, clpc, apc, ghostVars, orderVars,
      sinkVars>>

\* a connected client without credentials, and a call about to be made
Called(args) ==
    /\ Constructed /\ conn = "open" /\ ~creds
    /\ fn = "called"
    /\ arg \in args
    /\ val = <<>>

Return(v) ==
    /\ fn = "called"
    /\ fn' = "returned"
    /\ val' = v
    /\ UNCHANGED arg

\* the status codes a response frame may carry
AllCodes == 0..MaxCode

DetectInit == Called(AllCodes)

\* a call responseDetectError(code)
Detect ==
    /\ Return(responseDetectError(arg))
    /\ UNCHANGED clientVars

DetectSpec == DetectInit /\ [][Detect]_vars

(* --------------------------- packageRequest --------------------------- *)
\* Text is a sequence of characters, each a one-character string; "bad"
\* stands for a byte that is not valid UTF-8 and "fffd" for the replacement
\* character U+FFFD.
Chars == {"a", "\"", "\\", "<", "bad"}

RECURSIVE Strings(_)
Strings(n) ==
    IF n = 0 THEN {<<>>}
    ELSE Strings(n - 1)
         \cup {Append(str, ch) : str \in Strings(n - 1), ch \in Chars}

\* Go values found among the args of a request, as <<kind, payload>>
GoString(str) == <<"string", str>>
GoNumber(digits) == <<"number", <<digits>>>>
GoBool(b) == <<"bool", <<b>>>>
GoNil == <<"nil", <<>>>>
GoNaN == <<"nan", <<>>>>

Bindings ==
    {GoNil, GoNaN, GoNumber("10"), GoBool("true"), GoBool("false"),
     GoString(<<>>), GoString(<<"a", "\"">>)}

\* the requests handed to packageRequest
Requests ==
    [requestId : {<<"1">>, <<"2">>},
     op : {<<"e", "v", "a", "l">>},
     processor : {<<>>, <<"t">>},
     gremlin : {GoString(str) : str \in Strings(MaxStr)},
     bindings : Bindings]

UnsupportedValueError == "json: unsupported value"

\* encoding/json, string encoding: one character of a string
jsonChar(ch) ==
    CASE ch = "\"" -> <<"\\", "\"">>
      [] ch = "\\" -> <<"\\", "\\">>
      [] ch = "<" -> <<"\\", "u003c">>
      [] ch = "bad" -> <<"\\", "ufffd">>
      [] OTHER -> <<ch>>

RECURSIVE jsonChars(_)
jsonChars(str) ==
    IF str = <<>> THEN <<>> ELSE jsonChar(str[1]) \o jsonChars(Tail(str))

jsonString(str) == <<"\"">> \o jsonChars(str) \o <<"\"">>

\* encoding/json, one value; NaN has no encoding
jsonValue(v) ==
    CASE v[1] = "string" -> jsonString(v[2])
      [] v[1] = "nil" -> <<"null">>
      [] OTHER -> v[2]

\* encoding/json, a map: the keys in sorted order
jsonArgs(req) ==
    <<"{", "bindings", ":">> \o jsonValue(req.bindings)
    \o <<",", "gremlin", ":">> \o jsonValue(req.gremlin) \o <<"}">>

\* json.Marshal(req); requestId is the text form of the uuid
Marshal(req) ==
    <<"{", "requestId", ":">> \o jsonString(req.requestId)
    \o <<",", "op", ":">> \o jsonString(req.op)
    \o <<",", "processor", ":">> \o jsonString(req.processor)
    \o <<",", "args", ":">> \o jsonArgs(req) \o <<"}">>

MarshalError(req) ==
    IF req.bindings[1] = "nan" \/ req.gremlin[1] = "nan"
    THEN UnsupportedValueError ELSE NoError

\* []byte("!application/vnd.gremlin-v2.0+json")
MimeType ==
    <<"!", "a", "p", "p", "l", "i", "c", "a", "t", "i", "o", "n", "/",
      "v", "n", "d", ".", "g", "r", "e", "m", "l", "i", "n", "-", "v", "2", ".", "0",
      "+", "j", "s", "o", "n">>

\* the marker is left out of the message
packageRequest_Bare(req) ==
    IF MarshalError(req) # NoError
    THEN [msg |-> <<>>, err |-> MarshalError(req)]
    ELSE [msg |-> Marshal(req), err |-> NoError]

\* packageRequest: json.Marshal, then append(mimeType, j...)
packageRequest(req) ==
    IF MarshalError(req) # NoError
    THEN [msg |-> <<>>, err |-> MarshalError(req)]
    ELSE [msg |-> MimeType \o Marshal(req), err |-> NoError]

\* a JSON decoder: the string that starts after the quote at position i - 1,
\* as <<characters, position after the closing quote>>
RECURSIVE scanString(_, _, _)
scanString(text, i, acc) ==
    IF text[i] = "\"" THEN <<acc, i + 1>>
    ELSE IF text[i] = "\\"
         THEN scanString(text, i + 2,
                         Append(acc, CASE text[i + 1] = "u003c" -> "<"
                                       [] text[i + 1] = "ufffd" -> "fffd"
                                       [] OTHER -> text[i + 1]))
         ELSE scanString(text, i + 1, Append(acc, text[i]))

\* the value that starts at position i, as <<value, position after it>>
scanValue(text, i) ==
    CASE text[i] = "\"" ->
            LET r == scanString(text, i + 1, <<>>) IN <<GoString(r[1]), r[2]>>
      [] text[i] = "null" -> <<GoNil, i + 1>>
      [] text[i] \in {"true", "false"} -> <<GoBool(text[i]), i + 1>>
      [] OTHER -> <<GoNumber(text[i]), i + 1>>

\* the member named key of the object whose members start at position i
scanMember(text, i, key) ==
    IF text[i] = key /\ text[i + 1] = ":" THEN scanValue(text, i + 2)
    ELSE <<GoNaN, i>>

\* json.Unmarshal into a request, the members of args taken by name
Unmarshal(text) ==
    LET id == scanMember(text, 2, "requestId")
        op == scanMember(text, id[2] + 1, "op")
        pr == scanMember(text, op[2] + 1, "processor")
        k1 == text[pr[2] + 4]
        a1 == scanValue(text, pr[2] + 6)
        k2 == text[a1[2] + 1]
        a2 == scanValue(text, a1[2] + 3)
        member(key) == IF k1 = key THEN a1[1] ELSE IF k2 = key THEN a2[1] ELSE GoNaN
    IN  [requestId |-> id[1][2], op |-> op[1][2], processor |-> pr[1][2],
         gremlin |-> member("gremlin"), bindings |-> member("bindings")]

\* bytes.SplitAfter(message, mimeType)[1]: the message without the marker
StripMarker(msg) == SubSeq(msg, Len(MimeType) + 1, Len(msg))

PackInit == Called(Requests)

\* a call packageRequest(req)
Package ==
    /\ Return(packageRequest(arg))
    /\ UNCHANGED clientVars

PackSpec == PackInit /\ [][Package]_vars

\* Backpressure: one caller, the loops and one Close on a connected client
\* whose server is silent.  The loops, the timers, the receiver of errs and a
\* caller that is not blocked always get to run.
HangInit == Init /\ ~creds /\ conn = "open"

HangNext ==
    \/ Closing(1)
    \/ PingOk
    \/ PingFail
    \/ PingErrDelivered
    \/ PingQuit
    \/ Writer
    \/ WriterQuit
    \/ ReaderSocket
    \/ \E c \in LifeCallers : Call(c, MaxHangReq)

HangFairness ==
    /\ WF_vars(Closing(1))
    /\ WF_vars(PingErrDelivered \/ PingQuit)
    /\ WF_vars(Writer)
    /\ SF_vars(WriterQuit)
    /\ WF_vars(ReaderSocket)
    /\ \A c \in LifeCallers :
          WF_vars(executeRequest(c) \/ dispatchRequest(c) \/ retrieveTimeout(c))

FairSpec == HangInit /\ [][HangNext]_vars /\ HangFairness

\* The request queue under load: one caller that gives up waiting and asks
\* again, in front of a server that demands authentication of a client with
\* credentials, so that callers and the reader both send on the queue.
QueueInit == Init /\ creds /\ conn = "open"

QueueNext ==
    \/ Writer
    \/ ReaderSocket
    \/ ReaderFrames
    \/ \E c \in LifeCallers : Call(c, MaxHangReq)
    \/ \E c \in LifeCallers : Retrieve(c)

QueueSpec == QueueInit /\ [][QueueNext]_vars

\* Ping and pong: the loops and one Close on a connected client whose
\* server answers pings with pongs or lets them fail; the receiver of errs
\* always gets to run.
PingNext ==
    \/ HangNext
    \/ pongHandler

PingSpec == HangInit /\ [][PingNext]_vars /\ HangFairness

\* Cancellation: one Close on a connected client with credentials while its
\* caller, its three loops and the server are at work.  Every loop, timer and
\* caller that can take a step gets to take one, the receiver of errs always
\* runs, and a select whose quit case is ready again and again takes it.
CancelInit == Init /\ creds /\ conn = "open"

CancelNext ==
    \/ Closing(1)
    \/ PingOk
    \/ PingFail
    \/ PingErrDelivered
    \/ PingQuit
    \/ Writer
    \/ WriterQuit
    \/ ReaderSocket
    \/ ReaderFrames
    \/ \E c \in LifeCallers : Call(c, MaxReq)
    \/ \E c \in LifeCallers : Retrieve(c)

CancelFairness ==
    /\ WF_vars(Closing(1))
    /\ WF_vars(PingErrDelivered)
    /\ SF_vars(PingQuit)
    /\ WF_vars(Writer)
    /\ SF_vars(WriterQuit)
    /\ WF_vars(ReaderSocket)
    /\ \A c \in LifeCallers :
          WF_vars(executeRequest(c) \/ dispatchRequest(c) \/ retrieveTimeout(c))
    /\ WF_vars(ReaderFrames)
    /\ \A c \in LifeCallers : WF_vars(Retrieve(c))

CancelSpec == CancelInit /\ [][CancelNext]_vars /\ CancelFairness

(* ---------------------------- query builder --------------------------- *)
\* A query is a sequence of pieces: the quotation marks of the format
\* strings and the characters of the caller's strings one by one, the other
\* fixed text, the labels and the property names as single pieces.
ErrorInterfaceHasNoIdField == "ErrorInterfaceHasNoIdField"
ErrorNoGraphTags == "ErrorNoGraphTags"
ErrorUnsupportedPropertyMap == "ErrorUnsupportedPropertyMap"
ErrorNoTagOptionType == "field graph tag does not contain a tag option type"

Special == {"'", "\"", "\\"}

\* escapeString: a backslash is written before ', " and \, then the character
RECURSIVE escapeString(_)
escapeString(str) ==
    IF str = <<>> THEN <<>>
    ELSE LET char == Head(str) IN
         (IF char \in Special THEN <<"\\", char>> ELSE <<char>>)
            \o escapeString(Tail(str))

\* fmt.Sprintf("%s.property('%s', '%s')", q, name, text)
quotedProperty(q, name, text) ==
    q \o <<".property(", "'", name, "'", ", ", "'">> \o text \o <<"'", ")">>

\* fmt.Sprintf("%s.property('%s', %v)", q, name, v)
bareProperty(q, name, v) == q \o <<".property(", "'", name, "'", ", ">> \o v \o <<")">>

\* the caller's strings
Texts == {<<"a">>, <<"'">>, <<"a", "\\">>, <<"\"", "a">>}

\* A field of a record: its Go name, the name and the option of its graph
\* tag as parseTag splits them, and its value as a list of elements (a scalar
\* is a list of one).
Scalars(field, name, opts, values) ==
    {[field |-> field, name |-> name, opts |-> opts, val |-> <<v>>] : v \in values}

Lists(field, name, opts, values) ==
    {[field |-> field, name |-> name, opts |-> opts, val |-> l] :
        l \in {<<>>} \cup {<<v, w>> : v \in values, w \in values}}

Fields ==
    Scalars("Id", "id", "string", {<<"u">>})
        \cup Scalars("Name", "name", "string", {<<"a">>, <<"'">>})
        \cup Scalars("Pk", "pk", "partitionKey", {<<"a", "\\">>})
        \cup Scalars("Age", "age", "number", {<<"7">>})
        \cup Scalars("Ok", "ok", "bool", {<<"true">>})
        \cup Lists("Tags", "tags", "[]string", {<<"a">>, <<"\"", "a">>})
        \cup Lists("Nums", "nums", "[]number", {<<"1">>, <<"2">>})
        \cup Scalars("Id", "", "", {<<"u">>})
        \cup Scalars("Plain", "", "", {<<"a">>})
        \cup Scalars("Bare", "bare", "", {<<"a">>})
        \cup Scalars("Odd", "odd", "json", {<<"a">>})

\* the records: up to MaxFields fields with distinct Go names
RECURSIVE Records(_)
Records(n) ==
    IF n = 0 THEN {<<>>}
    ELSE Records(n - 1)
         \cup {Append(d, f) : d \in Records(n - 1), f \in Fields}

Distinct(d) == \A i, j \in 1..Len(d) : d[i].field = d[j].field => i = j

VertexCalls ==
    {[label |-> "person", data |-> d] : d \in {r \in Records(MaxFields) : Distinct(r)}}

\* d.FieldByName("Id").IsValid()
hasId(d) == \E i \in 1..Len(d) : d[i].field = "Id"

\* fmt.Sprintf("g.addV('%s')", label)
addVStep(label) == <<"g.addV(", "'", label, "'", ")">>

\* the inner loops of AddV over the elements of a list field
RECURSIVE elementProperties(_, _, _, _)
elementProperties(q, name, elems, quoted) ==
    IF elems = <<>> THEN q
    ELSE elementProperties(
            IF quoted THEN quotedProperty(q, name, escapeString(Head(elems)))
            ELSE bareProperty(q, name, Head(elems)),
            name, Tail(elems), quoted)

\* the steps of a field placed before those of the fields declared earlier
addVProperty_Front(q, f) ==
    LET head == SubSeq(q, 1, 5)
        rest == SubSeq(q, 6, Len(q)) IN
    IF f.opts \in {"string", "partitionKey"}
    THEN quotedProperty(head, f.name, escapeString(f.val[1])) \o rest
    ELSE IF f.opts \in {"bool", "number"}
    THEN bareProperty(head, f.name, f.val[1]) \o rest
    ELSE IF f.opts = "[]string"
    THEN elementProperties(head, f.name, f.val, TRUE) \o rest
    ELSE IF f.opts \in {"[]bool", "[]number"}
    THEN elementProperties(head, f.name, f.val, FALSE) \o rest
    ELSE q

\* the if/else chain of AddV on the option of a field's tag
addVProperty(q, f) ==
    IF f.opts \in {"string", "partitionKey"}
    THEN quotedProperty(q, f.name, escapeString(f.val[1]))
    ELSE IF f.opts \in {"bool", "number"}
    THEN bareProperty(q, f.name, f.val[1])
    ELSE IF f.opts = "[]string"
    THEN elementProperties(q, f.name, f.val, TRUE)
    ELSE IF f.opts \in {"[]bool", "[]number"}
    THEN elementProperties(q, f.name, f.val, FALSE)
    ELSE q

\* the loop of AddV over the fields, from field i on
RECURSIVE addVFields(_, _, _, _)
addVFields(q, d, i, tagLength) ==
    IF i > Len(d) THEN [q |-> q, err |-> NoError, tagLength |-> tagLength]
    ELSE IF d[i].name = "" /\ d[i].opts = ""
    THEN addVFields(q, d, i + 1, tagLength)
    ELSE IF d[i].opts = ""
    THEN [q |-> <<>>, err |-> ErrorNoTagOptionType, tagLength |-> tagLength + 1]
    ELSE addVFields(addVProperty(q, d[i]), d, i + 1, tagLength + 1)

\* AddV up to the call of Execute: the query, or the error it returns with
addVQuery(label, d) ==
    IF ~hasId(d) THEN [q |-> <<>>, err |-> ErrorInterfaceHasNoIdField]
    ELSE LET out == addVFields(addVStep(label), d, 1, 0) IN
         IF out.err # NoError THEN [q |-> <<>>, err |-> out.err]
         ELSE IF out.tagLength = 0 THEN [q |-> <<>>, err |-> ErrorInterfaceHasNoIdField]
         ELSE [q |-> out.q, err |-> NoError]

\* an operation returns err before it reaches Execute
Refuse(c, err) ==
    /\ pc' = [pc EXCEPT ![c] = "failed"]
    /\ cerr' = [cerr EXCEPT ![c] = err]
    /\ result' = [result EXCEPT ![c] = <<>>]
    /\ rid' = [rid EXCEPT ![c] = 0]

\* an operation up to its call of Execute; val is the query it hands over
Operation(c, out) ==
    /\ Alive
    /\ pc[c] \in Rest
    /\ IF isDisposed THEN Fail(c) /\ Return(<<>>)
       ELSE IF out.err # NoError THEN Refuse(c, out.err) /\ Return(<<>>)
       ELSE Pass(c, "wrapped") /\ Return(out.q)
    /\ UNCHANGED <<transportVars, panicked, Errored, creds, authReqId, requests, sent,
                   writerVars, readerVars, ppc, tableVars, nextId, clpc, apc,
                   ghostVars, orderVars, sinkVars>>

\* a call c.AddV(label, data)
AddV(c) == Operation(c, addVQuery(arg.label, arg.data))

\* Execute as the operation calls it, and the loops that serve it
Submit(c) ==
    \/ pc[c] = "wrapped" /\ ExecuteCheck(c, MaxReq)
    \/ executeRequest(c)
    \/ dispatchRequest(c)
    \/ retrieveTimeout(c)
    \/ WriterTake
    \/ WriterWriteOk
    \/ Closing(1)

VertexInit == Called(VertexCalls)

VertexNext == AddV(1) \/ Submit(1)

VertexSpec == VertexInit /\ [][VertexNext]_vars

\* A value of an edge property map: its reflect kind and its elements (a
\* scalar is a list of one; nil has the kind "invalid").
GoValues ==
    {[kind |-> "string", val |-> <<v>>] : v \in {<<"a">>, <<"'">>}}
        \cup {[kind |-> "int", val |-> <<<<"7">>>>], [kind |-> "bool", val |-> <<<<"true">>>>]}
        \cup {[kind |-> "slice", val |-> l] : l \in {<<>>, <<<<"a">>, <<"\\">>>>}}
        \cup {[kind |-> "map", val |-> <<>>], [kind |-> "invalid", val |-> <<>>]}

Keys == {"k" \o ToString(i) : i \in 1..MaxProps}

\* the property maps
PropertyMaps == UNION {[ks -> GoValues] : ks \in SUBSET Keys}

\* the calls: from and to say whether the endpoint has an Id field, which a
\* uuid.UUID argument of AddEWithPropsById stands for
EdgeCalls ==
    {[op |-> "AddEWithProps", label |-> "knows", from |-> f, to |-> t, props |-> p] :
        f \in BOOLEAN, t \in BOOLEAN, p \in PropertyMaps}
        \cup {[op |-> "AddEWithPropsById", label |-> "knows", from |-> TRUE, to |-> TRUE,
               props |-> p] : p \in PropertyMaps}

\* the orders in which range may visit the keys of a map
Orders(props) ==
    LET n == Cardinality(DOMAIN props) IN
    {o \in [1..n -> DOMAIN props] : \A i, j \in 1..n : o[i] = o[j] => i = j}

ScalarKindsOfReflect ==
    {"bool", "int", "int8", "int16", "int32", "int64", "uint", "uint8", "uint16",
     "uint32", "uint64", "float32", "float64"}

\* a slice gives the step of its first element only
buildProperty_FirstElement(q, k, v) ==
    IF v.kind = "string" THEN quotedProperty(q, k, v.val[1])
    ELSE IF v.kind \in ScalarKindsOfReflect THEN bareProperty(q, k, v.val[1])
    ELSE IF v.val = <<>> THEN q
    ELSE quotedProperty(q, k, escapeString(v.val[1]))

\* buildProps: the branches for a string, a bool or number, and a slice
buildProperty(q, k, v) ==
    IF v.kind = "string" THEN quotedProperty(q, k, v.val[1])
    ELSE IF v.kind \in ScalarKindsOfReflect THEN bareProperty(q, k, v.val[1])
    ELSE elementProperties(q, k, v.val, TRUE)

\* buildProps: the loop over the map, visiting the keys in the order o
RECURSIVE buildEntries(_, _, _, _)
buildEntries(q, props, o, i) ==
    IF i > Len(o) THEN [q |-> q, err |-> NoError]
    ELSE LET v == props[o[i]] IN
         IF v.kind \in {"string", "slice"} \cup ScalarKindsOfReflect
         THEN buildEntries(buildProperty(q, o[i], v), props, o, i + 1)
         ELSE [q |-> <<>>, err |-> ErrorUnsupportedPropertyMap]

buildProps(props, o) == buildEntries(<<>>, props, o, 1)

\* fmt.Sprintf("g.V('%s').addE('%s').to(g.V('%s'))", from, label, to)
addEStep(label) ==
    <<"g.V(", "'", "from", "'", ").addE(", "'", label, "'", ").to(g.V(", "'", "to", "'", "))">>

\* AddEWithProps and AddEWithPropsById up to the call of Execute
addEQuery(call, o) ==
    IF call.op = "AddEWithProps" /\ ~call.from
    THEN [q |-> <<>>, err |-> ErrorInterfaceHasNoIdField]
    ELSE IF call.op = "AddEWithProps" /\ ~call.to
    THEN [q |-> <<>>, err |-> ErrorInterfaceHasNoIdField]
    ELSE LET p == buildProps(call.props, o) IN
         IF p.err # NoError THEN [q |-> <<>>, err |-> p.err]
         ELSE [q |-> addEStep(call.label) \o p.q, err |-> NoError]

\* a call c.AddEWithProps(label, from, to, props)
AddEWithProps(c) ==
    /\ arg.op = "AddEWithProps"
    /\ \E o \in Orders(arg.props) : Operation(c, addEQuery(arg, o))

\* a call c.AddEWithPropsById(label, from, to, props)
AddEWithPropsById(c) ==
    /\ arg.op = "AddEWithPropsById"
    /\ \E o \in Orders(arg.props) : Operation(c, addEQuery(arg, o))

EdgeInit == Called(EdgeCalls)

EdgeNext == AddEWithProps(1) \/ AddEWithPropsById(1) \/ Submit(1)

EdgeSpec == EdgeInit /\ [][EdgeNext]_vars

(* --------------------------------- Get -------------------------------- *)
ErrorNotPtr == "the passed interface is not a ptr"
ErrorNotSlice == "the passed interface is not a slice"
ErrorMustHaveId == "the passed interface must have an Id field"
ErrorCannotCastProperty == "gremgoser: passed property cannot be cast"
PanicReflect == "reflect: call on a value of the wrong kind"

\* Integer widths are scaled down: WideBits stands for the 64 bits of int64
\* and uint64 (the width json.Number.Int64 parses to), NarrowBits for the
\* narrower widths.
RECURSIVE Pow2(_)
Pow2(n) == IF n = 0 THEN 1 ELSE 2 * Pow2(n - 1)

MinInt(bits) == 0 - Pow2(bits - 1)
MaxInt(bits) == Pow2(bits - 1) - 1
MaxUint(bits) == Pow2(bits) - 1

\* vNumber.Int64(): strconv.ParseInt(s, 10, 64) returns the nearest bound of
\* int64 for a value out of range, with an error that Get drops
Int64(n) ==
    IF n < MinInt(WideBits) THEN MinInt(WideBits)
    ELSE IF n > MaxInt(WideBits) THEN MaxInt(WideBits)
    ELSE n

\* uint64(vInt): the conversion keeps the bits
Uint64(vInt) == vInt % Pow2(WideBits)

\* reflect.Value.OverflowInt and OverflowUint for a field of that many bits
OverflowInt(bits, x) == x < MinInt(bits) \/ x > MaxInt(bits)
OverflowUint(bits, x) == x > MaxUint(bits)

\* A value on the wire: an element of a property array is an object with a
\* "value" of one of the JSON types, or something else ("bad").
Str(x) == [t |-> "string", s |-> x, n |-> 0, b |-> FALSE]
Num(x) == [t |-> "number", s |-> "", n |-> x, b |-> FALSE]
Bool(x) == [t |-> "bool", s |-> "", n |-> 0, b |-> x]
Bad == [t |-> "bad", s |-> "", n |-> 0, b |-> FALSE]

\* A field of the record type: its Go name, the name and option of its graph
\* tag, the kind and width of the field or of its elements, and whether it is
\* a slice.  uuid.UUID has the kind "array".
Column(field, name, opts, kind, bits, list) ==
    [field |-> field, name |-> name, opts |-> opts, kind |-> kind, bits |-> bits,
     list |-> list]

\* Get: if len(name) == 0 && len(opts) == 0 { continue }
annotated(f) == ~(f.name = "" /\ f.opts = "")

\* f.Kind()
fieldKind(f) == IF f.list THEN "slice" ELSE f.kind

\* s.Elem().FieldByName("Id").Kind()
idKind(type) == fieldKind(type[CHOOSE i \in 1..Len(type) : type[i].field = "Id"])

\* the zero value of a field or of an element
zeroOf(kind) ==
    IF kind = "string" THEN "" ELSE IF kind = "bool" THEN FALSE ELSE 0
zero(f) == IF f.list THEN <<>> ELSE zeroOf(f.kind)

\* the type assertion of the switch: v.(string), v.(json.Number), v.(bool)
asserted(kind, w) ==
    \/ kind = "string" /\ w.t = "string"
    \/ kind \in {"int", "uint"} /\ w.t = "number"
    \/ kind = "bool" /\ w.t = "bool"

\* the switch on the kind: the value a field or an element holds after it
setValue(kind, bits, cur, w) ==
    IF ~asserted(kind, w) THEN cur
    ELSE IF kind = "string" THEN w.s
    ELSE IF kind = "bool" THEN w.b
    ELSE IF kind = "int"
         THEN IF OverflowInt(bits, Int64(w.n)) THEN cur ELSE Int64(w.n)
    ELSE IF OverflowUint(bits, Uint64(Int64(w.n))) THEN cur ELSE Uint64(Int64(w.n))

\* the property at position i fills the element at the mirrored position
elementAt_Mirrored(i, n) == n + 1 - i

\* pSlice.Index(i) is set from propSlice.Index(i)
elementAt(i, n) == i

Done(v) == [out |-> "ok", err |-> NoError, v |-> v]
Stop(out, err) == [out |-> out, err |-> err, v |-> 0]

\* Get, the body of the loop over the fields, for field f of the new record
\* and the response element elem
decodeField(f, uuidType, elem) ==
    IF ~annotated(f) THEN Done(zero(f))
    ELSE IF fieldKind(f) = uuidType THEN Done(elem.id)
    ELSE IF f.name \notin DOMAIN elem.props THEN Done(zero(f))
    ELSE LET propSlice == elem.props[f.name]
             propSliceLen == Len(propSlice)
         IN  IF propSliceLen = 1
             THEN IF propSlice[1].t = "bad" THEN Stop("error", ErrorCannotCastProperty)
                  ELSE IF f.list
                       THEN IF asserted(f.kind, propSlice[1])
                            THEN Stop("panic", PanicReflect)
                            ELSE Done(zero(f))
                  ELSE Done(setValue(f.kind, f.bits, zero(f), propSlice[1]))
             ELSE IF propSliceLen > 1
             THEN IF ~f.list THEN Stop("panic", PanicReflect)
                  ELSE IF \E i \in 1..propSliceLen : propSlice[i].t = "bad"
                       THEN Stop("error", ErrorCannotCastProperty)
                  ELSE Done([i \in 1..propSliceLen |->
                               setValue(f.kind, f.bits, zeroOf(f.kind),
                                        propSlice[elementAt(i, propSliceLen)])])
             ELSE Done(zero(f))

\* the empty response is copied to the target
emptyTarget_Cleared(before) == <<>>

\* Get: if len(respDataSlice) == 0 { return nil }, before anything is set
emptyTarget(before) == before

\* Get after executeRequest: what it returns and what the target slice holds
\* afterwards, for the record type, the response and the slice as it was
getRecords(type, resp, before) ==
    IF Len(resp) = 0 THEN [out |-> "ok", err |-> NoError, target |-> emptyTarget(before)]
    ELSE IF ~hasId(type)
    THEN [out |-> "error", err |-> ErrorMustHaveId, target |-> before]
    ELSE LET outs == [j \in 1..Len(resp) |->
                        [i \in 1..Len(type) |-> decodeField(type[i], idKind(type), resp[j])]]
             stops == {p \in (1..Len(resp)) \X (1..Len(type)) : outs[p[1]][p[2]].out # "ok"}
             first == CHOOSE p \in stops :
                         \A q \in stops : p[1] < q[1] \/ (p[1] = q[1] /\ p[2] <= q[2])
         IN  IF stops = {}
             THEN [out |-> "ok", err |-> NoError,
                   target |-> [j \in 1..Len(resp) |-> [i \in 1..Len(type) |-> outs[j][i].v]]]
             ELSE [out |-> outs[first[1]][first[2]].out,
                   err |-> outs[first[1]][first[2]].err, target |-> before]

\* the record types: an Id field with or without a graph tag, or none, and
\* up to MaxFields - 1 further fields
IdColumns ==
    {Column("Id", "id", "string", "array", 0, FALSE), Column("Id", "", "", "array", 0, FALSE)}

NumberColumns ==
    {Column("B", "b", "number", k, w, FALSE) : k \in {"int", "uint"}, w \in {NarrowBits, WideBits}}
        \cup {Column("BB", "bb", "[]number", k, w, TRUE) :
                 k \in {"int", "uint"}, w \in {NarrowBits, WideBits}}

Columns ==
    {Column("A", "a", "string", "string", 0, FALSE),
     Column("AA", "aa", "[]string", "string", 0, TRUE),
     Column("B", "b", "number", "int", NarrowBits, FALSE),
     Column("BB", "bb", "[]number", "int", WideBits, TRUE),
     Column("N", "n", "bool", "bool", 0, FALSE),
     Column("P", "", "", "string", 0, FALSE),
     Column("U", "u", "string", "array", 0, FALSE)}

RECURSIVE ColumnLists(_)
ColumnLists(n) ==
    IF n = 0 THEN {<<>>}
    ELSE ColumnLists(n - 1)
         \cup {Append(d, f) : d \in ColumnLists(n - 1), f \in Columns}

RecordTypes ==
    {head \o d : head \in {<<>>} \cup {<<f>> : f \in IdColumns},
                 d \in {l \in ColumnLists(MaxFields - 1) : Distinct(l)}}

\* the property arrays of the server, by property name
WireArrays ==
    {<<"a", l>> : l \in {<<Str("x")>>, <<Str("x"), Str("y")>>, <<>>, <<Bad>>, <<Num(5)>>}}
        \cup {<<"aa", l>> : l \in {<<Str("x"), Str("y")>>, <<Str("x")>>, <<Str("x"), Bad>>}}
        \cup {<<"b", l>> : l \in {<<Num(5)>>, <<Str("x")>>}}
        \cup {<<"bb", l>> : l \in {<<Num(1), Num(2)>>, <<Num(2), Num(1), Num(Pow2(WideBits))>>}}
        \cup {<<"n", <<Bool(TRUE)>>>>, <<"u", <<Str("x")>>>>, <<"zz", <<Str("x")>>>>}

PropertyNames == {"a", "aa", "b", "bb", "n", "u", "zz"}

\* the properties maps with up to MaxProps names
Properties ==
    {m \in UNION {[ns -> {p[2] : p \in WireArrays}] :
                     ns \in {x \in SUBSET PropertyNames : Cardinality(x) <= MaxProps}} :
        \A n \in DOMAIN m : <<n, m[n]>> \in WireArrays}

Vertex(id, props) == [id |-> id, props |-> props]

\* the vertex responses: up to MaxElems elements
Responses ==
    {<<>>}
        \cup {<<Vertex(1, m)>> : m \in Properties}
        \cup {<<Vertex(2, m), Vertex(1, n)>> :
                 m \in Properties,
                 n \in {<<>>, [x \in {"a"} |-> <<Str("y")>>],
                        [x \in {"aa", "zz"} |->
                            IF x = "aa" THEN <<Str("y"), Str("x")>> ELSE <<Str("x")>>]}}

\* the numbers on the wire, around the bounds of the integer types
WireNumbers ==
    {MinInt(WideBits) - 1, MinInt(WideBits), MinInt(NarrowBits) - 1, MinInt(NarrowBits), -1,
     0, 5, MaxInt(NarrowBits), MaxInt(NarrowBits) + 1, MaxUint(NarrowBits),
     MaxUint(NarrowBits) + 1, MaxInt(WideBits), MaxInt(WideBits) + 1, MaxUint(WideBits),
     MaxUint(WideBits) + 1}

\* the target slice as the caller hands it over: one record of zero values
Before(type) == <<[i \in 1..Len(type) |-> zero(type[i])]>>

DecodeCalls ==
    {[type |-> t, resp |-> r, before |-> Before(t)] : t \in RecordTypes, r \in Responses}
        \cup {[type |-> <<Column("Id", "id", "string", "array", 0, FALSE), f>>,
               resp |-> <<Vertex(1, [x \in {f.name} |-> l])>>,
               before |-> <<>>] :
                 f \in NumberColumns,
                 l \in {<<Num(v)>> : v \in WireNumbers}
                          \cup {<<Num(v), Num(5)>> : v \in WireNumbers}}

DecodeInit == Called(DecodeCalls)

\* Get from the return of executeRequest on, for a vertex response
Decode ==
    /\ Return(getRecords(arg.type, arg.resp, arg.before))
    /\ UNCHANGED clientVars

DecodeSpec == DecodeInit /\ [][Decode]_vars

\* What Get is handed as its target: reflect.ValueOf(ptr).Kind() and, for a
\* pointer, the kind of what it points to ("invalid" for a nil pointer).
Targets ==
    {[kind |-> "invalid", elem |-> "none"], [kind |-> "slice", elem |-> "none"],
     [kind |-> "struct", elem |-> "none"], [kind |-> "ptr", elem |-> "struct"],
     [kind |-> "ptr", elem |-> "invalid"], [kind |-> "ptr", elem |-> "slice"]}

GetTypes ==
    {<<Column("Id", "id", "string", "array", 0, FALSE)>>,
     <<Column("Id", "id", "string", "array", 0, FALSE),
       Column("A", "a", "string", "string", 0, FALSE)>>,
     <<Column("A", "a", "string", "string", 0, FALSE)>>}

\* the calls of Get: the target, the record type of its slice, and what the
\* slice (or the value handed over in its place) holds before the call
GetCalls ==
    {[ptr |-> p, type |-> t, before |-> IF empty THEN <<>> ELSE Before(t)] :
        p \in Targets, t \in GetTypes, empty \in BOOLEAN}

\* the elements of a response as vertices: the serial number of the frame is
\* the id, and the properties map is present and empty
vertices(data) == [j \in 1..Len(data) |-> Vertex(data[j][2], <<>>)]

\* only the pointer is checked
targetError_PtrOnly(ptr) == IF ptr.kind # "ptr" THEN ErrorNotPtr ELSE NoError

\* Get: reflect.ValueOf(ptr).Kind() != reflect.Ptr, then
\* reflect.ValueOf(ptr).Elem().Kind() != reflect.Slice
targetError(ptr) ==
    IF ptr.kind # "ptr" THEN ErrorNotPtr
    ELSE IF ptr.elem # "slice" THEN ErrorNotSlice
    ELSE NoError

\* Get up to its call of executeRequest
GetCheck(c) ==
    /\ Alive
    /\ fn = "called"
    /\ pc[c] \in Rest
    /\ IF isDisposed THEN Fail(c) /\ fn' = "returned"
       ELSE IF targetError(arg.ptr) # NoError
            THEN Refuse(c, targetError(arg.ptr)) /\ fn' = "returned"
       ELSE Pass(c, "checked") /\ fn' = "running"
    /\ UNCHANGED <<transportVars, panicked, Errored, creds, authReqId, requests, sent,
                   writerVars, readerVars, ppc, tableVars, nextId, clpc, apc,
                   ghostVars, orderVars, sinkVars, arg, val>>

\* Get from the return of executeRequest on
GetDecode(c) ==
    /\ Alive
    /\ fn = "running"
    /\ pc[c] \in {"done", "timedout"}
    /\ LET out == getRecords(arg.type, vertices(result[c]), val)
       IN  IF cerr[c] # NoError
           THEN fn' = "returned" /\ UNCHANGED <<val, cerr, panicked>>
           ELSE IF out.out = "panic"
           THEN panicked' = out.err /\ UNCHANGED <<fn, val, cerr>>
           ELSE /\ fn' = "returned"
                /\ val' = out.target
                /\ cerr' = [cerr EXCEPT ![c] = out.err]
                /\ UNCHANGED panicked
    /\ UNCHANGED <<transportVars, Errored, creds, authReqId, requests, sent, writerVars,
                   readerVars, ppc, tableVars, pc, rid, result, nextId, clpc, apc,
                   ghostVars, orderVars, sinkVars, arg>>

GetInit ==
    /\ Constructed /\ conn = "open" /\ ~creds
    /\ fn = "called"
    /\ arg \in GetCalls
    /\ val = arg.before

\* one call of Get, the loops and the server that answer it, and one Close
GetNext ==
    \/ GetCheck(1)
    \/ executeRequest(1)
    \/ dispatchRequest(1)
    \/ retrieveTimeout(1)
    \/ Retrieve(1)
    \/ GetDecode(1)
    \/ Writer
    \/ ReaderFrames
    \/ Closing(1)

GetSpec == GetInit /\ [][GetNext]_vars

\* saveResponse in its two halves, for the interleavings of the reader with
\* a waiting caller: the store of the buffer, and the LoadOrStore and send on
\* the notifier.  The response mutex is held by the reader throughout, and
\* no caller takes it.
saveOrder_SignalFirst(k) == IF k = 1 THEN "signal" ELSE "store"

\* saveResponse: c.results.Store precedes respNotifier.(chan int) <- 1
saveOrder(k) == IF k = 1 THEN "store" ELSE "signal"

\* saveResponse: container = append(...); c.results.Store(resp.RequestId, container)
saveStore(next) ==
    LET id == saveKey(rmsg)
        container == IF results[id].ok THEN results[id].data ELSE <<>>
    IN  /\ results' = Store(results, id, appendData(container, rmsg.data))
        /\ handled' = Log(rmsg)
        /\ rpc' = next
        /\ rmsg' = IF next = "check" THEN NoResponse ELSE rmsg
        /\ UNCHANGED <<notif, panicked>>

\* saveResponse: LoadOrStore of the notifier; if resp.Status.Code != 206 the send
saveSignal(next) ==
    LET id == saveKey(rmsg)
        ch == IF notif[id] = "none" THEN "empty" ELSE notif[id]
    IN  /\ IF ~signals(rmsg) \/ ch = "empty"
           THEN /\ notif' = [notif EXCEPT ![id] = IF signals(rmsg) THEN "full" ELSE ch]
                /\ rpc' = next
                /\ rmsg' = IF next = "check" THEN NoResponse ELSE rmsg
                /\ UNCHANGED panicked
           ELSE IF ch = "full"
           THEN /\ rpc' = "sendblocked"
                /\ UNCHANGED <<notif, rmsg, panicked>>
           ELSE /\ panicked' = PanicSendOnClosedChannel
                /\ UNCHANGED <<notif, rmsg, rpc>>
        /\ UNCHANGED <<results, handled>>

saveHalf(part, next) == IF part = "store" THEN saveStore(next) ELSE saveSignal(next)

saveResponseBegin ==
    /\ Alive
    /\ rpc = "handle"
    /\ marshalResponse(rmsg) = NoError
    /\ saveHalf(saveOrder(1), "half")
    /\ UNCHANGED <<transportVars, Errored, creds, authReqId, requests, sent,
                   writerVars, rerr, ppc, callerVars, clpc, apc, nframes,
                   orderVars, sinkVars, callVars>>

saveResponseEnd ==
    /\ Alive
    /\ rpc = "half"
    /\ saveHalf(saveOrder(2), "check")
    /\ UNCHANGED <<transportVars, Errored, creds, authReqId, requests, sent,
                   writerVars, rerr, ppc, callerVars, clpc, apc, nframes,
                   orderVars, sinkVars, callVars>>

\* the correlation engine with saveResponse in two steps
StepNext ==
    \/ Writer
    \/ ReaderSocket
    \/ ReaderRead
    \/ handleResponseError
    \/ ReaderHandleErrDelivered
    \/ authenticate
    \/ saveResponseBegin
    \/ saveResponseEnd
    \/ ReaderCheckQuit
    \/ \E c \in Callers : Call(c, MaxReq)
    \/ \E c \in Callers : Retrieve(c)

StepSpec == Init /\ [][StepNext]_vars

(* ------------------------------- claims ------------------------------- *)
Terminal == {200, 204}
Returned(c) == pc[c] \in {"loaded", "closed", "done"}

\* zero or more 206 frames followed by one terminal frame
PartialsThenTerminal(codes) ==
    /\ Len(codes) >= 1
    /\ codes[Len(codes)] \in Terminal
    /\ \A i \in 1..(Len(codes) - 1) : codes[i] = 206

\* C1: when the frames handled for a request id are zero or more 206 frames
\* followed by one terminal frame, the result retrieveResponse hands to the
\* caller of that id is the concatenation, in arrival order, of the data of
\* all those frames.
C1_RetrievedIsConcatenation ==
    \A c \in Callers :
        (/\ Returned(c)
         /\ PartialsThenTerminal(Codes(handled[rid[c]])))
        => result[c] = Concat(handled[rid[c]])

C1_Witness ==
    \E c \in Callers :
        /\ pc[c] = "done"
        /\ Codes(handled[rid[c]]) = <<206, 200>>
        /\ Len(result[c]) = 2
        /\ \E d \in Callers : d # c /\ pc[d] = "waiting"

\* C2: every Execute call that has passed the disposed check returns to its
\* caller (unless the process has died of a panic).
C2_EveryExecuteReturns ==
    \A c \in Callers :
        (pc[c] = "checked") ~> (pc[c] \in {"done", "timedout"} \/ ~Alive)

\* the sasl payload SetAuthentication configured
ConfiguredSasl == prepareAuthRequest(TemplateId, Username, Password).sasl

\* the step in which readWorker finishes handling the frame it holds
HandlesFrame == rpc = "handle" /\ rpc' # "handle"

\* one or more 407 frames, possibly 206 frames, then one terminal frame
ChallengedThenTerminal(codes) ==
    /\ Len(codes) >= 2
    /\ codes[Len(codes)] \in Terminal
    /\ \A i \in 1..(Len(codes) - 1) : codes[i] \in {206, 407}
    /\ \E i \in 1..(Len(codes) - 1) : codes[i] = 407

C4_Correlated ==
    /\ [](\A c \in Callers :
            Returned(c) => \A i \in 1..Len(result[c]) : result[c][i][1] = rid[c])
    /\ [][\A c \in Callers :
            (pc[c] = "waiting" /\ pc'[c] = "received")
            => \E i \in 1..Len(handled[rid[c]]) :
                  handled[rid[c]][i].code \in Terminal]_vars

C4_Witness ==
    \E c, d \in Callers :
        /\ c # d
        /\ pc[c] = "loaded"
        /\ result[c] # <<>>
        /\ pc[d] = "waiting"
        /\ handled[rid[d]] # <<>>
        /\ notif[rid[d]] = "empty"

\* a call of Close has returned
CloseReturned == \E k \in Closers : clpc[k] = "returned"

\* caller c starts an operation in this step
Starts(c) == pc[c] \in Rest /\ <<pc[c], cerr[c]>> # <<pc'[c], cerr'[c]>>

Refused(c) ==
    /\ pc'[c] = "failed"
    /\ cerr'[c] = ErrorConnectionDisposed
    /\ UNCHANGED <<requests, notif, results>>

\* C5: once Close has returned, every operation fails with
\* ConnectionDisposed, puts no frame on the queue and creates no pending entry.
C5_AfterCloseEveryOperationFails ==
    [][CloseReturned => \A c \in Callers : Starts(c) => Refused(c)]_vars

\* What the isDisposed checks do give: once the transport is disposed, every
\* operation fails with ConnectionDisposed, puts no frame on the queue and
\* creates no pending entry; an operation that was building its query when
\* the transport was disposed fails at the check of Execute.
DisposedRefusesOperations ==
    [][disposed =>
         \A c \in Callers :
            /\ Starts(c) => Refused(c)
            /\ (pc[c] = "wrapped" /\ pc'[c] # "wrapped") => Refused(c)]_vars

DisposedRefusal ==
    \E c \in Callers :
        /\ disposed
        /\ pc[c] = "failed"
        /\ cerr[c] = ErrorConnectionDisposed
        /\ requests = <<>>

\* C6: a call that times out returns an empty result and no error, also when
\* partial frames have been buffered for it.
C6_TimeoutIsEmptyNotError ==
    \A c \in Callers :
        pc[c] = "timedout" => (result[c] = <<>> /\ cerr[c] = NoError)

C6_Witness ==
    \E c \in Callers :
        /\ pc[c] = "timedout"
        /\ Codes(handled[rid[c]]) = <<206>>
        /\ results[rid[c]].ok
        /\ results[rid[c]].data # <<>>

\* C7: a frame with an error status for an outstanding request is terminal:
\* its data is stored and the waiter of the request is signalled.
C7_ErrorFrameIsTerminal ==
    [][(/\ HandlesFrame
        /\ marshalResponse(rmsg) \notin {NoError, "Error407Authenticate"}
        /\ notif[rmsg.requestId] # "none")
       => /\ results'[rmsg.requestId].ok
          /\ notif'[rmsg.requestId] = "full"]_vars

\* C8: a 407 frame without configured credentials completes the request (the
\* waiter is signalled), enqueues nothing and leaves readWorker running.
C8_NoAuthCompletes ==
    [][(/\ rpc = "handle"
        /\ rmsg.code = 407
        /\ ~creds
        /\ <<rpc, panicked>> # <<rpc', panicked'>>)
       => /\ panicked' = NoPanic
          /\ requests' = requests
          /\ notif'[rmsg.requestId] = "full"]_vars

\* C9: once disposed is true it is true in every later state.
C9_DisposedIsTerminal == [][disposed => disposed']_vars

C9_Witness == disposed /\ conn = "open" /\ connected /\ uri > 0

\* C10: no call of Close closes the quit channel a second time.
C10_QuitClosedOnce == panicked # PanicCloseOfClosedChannel

\* C11: frames are handed to the socket in exactly the order in which they
\* were placed on the request queue: the queue holds its frames in the order
\* they were placed, the frame the writer holds was placed before all of
\* them, and each write takes the frame placed next after the one written
\* last.
C11_WritesInQueueOrder ==
    /\ [](/\ Len(tickets) = Len(requests)
          /\ \A i, j \in 1..Len(tickets) : i < j => tickets[i] < tickets[j]
          /\ \A i \in 1..Len(tickets) : tickets[i] > wtick /\ tickets[i] > lastOut
          /\ wtick # 0 => wtick = lastOut + 1)
    /\ [][lastOut' # lastOut => lastOut' = lastOut + 1]_vars

C11_Witness ==
    /\ lastOut = 1
    /\ wtick = 2
    /\ Len(requests) >= 1
    /\ \E f \in sent : f.op = "eval"
    /\ wmsg.op = "authentication"

\* C12: a call of NewClient that has run into an empty URI or a handshake
\* that failed entirely goes on to return to its caller (it is never left
\* without a step to take).
C12_NewClientReturns ==
    npc \in {"sendInvalidURI", "sendWSConnection"} => ENABLED NewNext

\* everything but the position of the caller of Reconnect
exceptApc ==
    <<transportVars, panicked, Errored, creds, authReqId, requests, sent, writerVars,
      readerVars, ppc, tableVars, callerVars, clpc, ghostVars, orderVars, sinkVars,
      callVars>>

\* C13: a call of Reconnect goes on to the handshake if and only if
\* isConnected is false when it checks; a call on a connected transport
\* changes no state; a handshake is performed by no other step of the client;
\* and neither the check nor the handshake places a frame on the request
\* queue, writes one to the socket or touches a pending request.
C13_ReconnectOnlyWhenDisconnected ==
    /\ [][(apc = "called" /\ apc' # "called")
          => IF connected
             THEN apc' = "idle" /\ UNCHANGED exceptApc
             ELSE UNCHANGED <<requests, sent, writerVars, orderVars, tableVars,
                              callerVars>>]_vars
    /\ [][(redialed' # redialed \/ uri' # uri \/ (conn = "nil" /\ conn' = "open"))
          => apc = "called" /\ ~connected]_vars

\* a request is in flight, a Reconnect has opened the socket that NewClient
\* had left absent, and a further call finds the transport connected
C13_Witness ==
    /\ answer = "http" /\ redialed /\ conn = "open"
    /\ apc = "called"
    /\ connected
    /\ \E c \in Callers : pc[c] = "waiting" /\ sent = {prepareRequest(rid[c])}
    /\ enq = 1
    /\ lastOut = 1

\* C14: when the server answers the handshakes of NewClient with a plain HTTP
\* response, connect reports no error, the socket is absent, the transport
\* is not connected and NewClient returns the client with its loops running;
\* and until a call of Reconnect dials again, the first error received from
\* the error channel is WSConnectionNil.
C14_PlainHttpAnswer ==
    /\ [][(npc = "called" /\ answer' = "http")
          => /\ npc' = "returned"
             /\ conn' = "nil"
             /\ ~connected'
             /\ <<wpc', rpc', ppc'>> = <<"select", "read", "nilerr">>]_vars
    /\ []((answer = "http" /\ ~redialed /\ firstErr # NoError)
          => firstErr = ErrorWSConnectionNil)

C14_Witness ==
    /\ npc = "returned"
    /\ answer = "http"
    /\ ~redialed
    /\ conn = "nil"
    /\ ~connected
    /\ firstErr = ErrorWSConnectionNil

\* C15: responseDetectError returns no error exactly for the codes 200, 204
\* and 206, the error named after the code for 401, 407, 498, 499, 500, 597,
\* 598 and 599, and UnknownCode for every other code.
C15_StatusTable ==
    fn = "returned" =>
        /\ (val = NoError) <=> (arg \in {200, 204, 206})
        /\ arg = 401 => val = "Error401Unauthorized"
        /\ arg = 407 => val = "Error407Authenticate"
        /\ arg = 498 => val = "Error498MalformedRequest"
        /\ arg = 499 => val = "Error499InvalidRequestArguments"
        /\ arg = 500 => val = "Error500ServerError"
        /\ arg = 597 => val = "Error597ScriptEvaluationError"
        /\ arg = 598 => val = "Error598ServerTimeout"
        /\ arg = 599 => val = "Error599ServerSerializationError"
        /\ arg \notin {200, 204, 206, 401, 407, 498, 499, 500, 597, 598, 599}
              => val = "ErrorUnknownCode"

C15_Witness == fn = "returned" /\ arg = 205 /\ val = "ErrorUnknownCode"

\* the message is the marker followed by the JSON encoding, and decodes to
\* the request
PackagedFaithfully(req, out) ==
    /\ out.err = NoError
    /\ Len(MimeType) = 34
    /\ Len(out.msg) > 34
    /\ SubSeq(out.msg, 1, 34) = MimeType
    /\ StripMarker(out.msg) = Marshal(req)
    /\ Unmarshal(StripMarker(out.msg)) = req

Encodable(req) == req.bindings # GoNaN /\ req.gremlin # GoNaN

\* every string of the request is valid UTF-8
ValidText(req) ==
    /\ \A i \in 1..Len(req.gremlin[2]) : req.gremlin[2][i] # "bad"
    /\ \A i \in 1..Len(req.bindings[2]) : req.bindings[2][i] # "bad"

ScalarKinds == {"string", "partitionKey", "bool", "number"}

ListKinds == {"[]string", "[]number"}

Literal(kind, v) ==
    IF kind \in {"string", "partitionKey", "[]string"}
    THEN <<"'">> \o escapeString(v) \o <<"'">>
    ELSE v

\* one .property step
Step(f, i) ==
    <<".property(", "'", f.name, "'", ", ">> \o Literal(f.opts, f.val[i]) \o <<")">>

RECURSIVE StepsFrom(_, _)
StepsFrom(f, i) == IF i > Len(f.val) THEN <<>> ELSE Step(f, i) \o StepsFrom(f, i + 1)

\* the steps a field contributes at its position
StepsOf(f) == IF f.name = "" /\ f.opts = "" THEN <<>> ELSE StepsFrom(f, 1)

RECURSIVE StepsInOrder(_, _)
StepsInOrder(d, i) == IF i > Len(d) THEN <<>> ELSE StepsOf(d[i]) \o StepsInOrder(d, i + 1)

\* a record whose annotations are all of the kinds above, at least one
Annotated(d) ==
    /\ \A i \in 1..Len(d) :
          \/ d[i].name = "" /\ d[i].opts = ""
          \/ d[i].opts \in ScalarKinds \cup ListKinds
    /\ \E i \in 1..Len(d) : d[i].opts # ""

ReturnedWith(c, err) == pc[c] = "failed" /\ cerr[c] = err

\* the operation runs on a client that is not disposed
Built == fn = "called" /\ fn' = "returned" /\ ~isDisposed

\* some annotated field has a name but no kind option
NameWithoutKind(d) == \E i \in 1..Len(d) : d[i].name # "" /\ d[i].opts = ""

\* every field of the record has an empty annotation
NoAnnotation(d) == \A i \in 1..Len(d) : d[i].name = "" /\ d[i].opts = ""

\* AddV on a client that is not disposed fails with NoIdField for a record
\* without an Id field and with the missing-tag-option error for a record with
\* an Id field and a named field without kind; nothing is queued
AddVRefusesBadRecords ==
    [][Built /\ (~hasId(arg.data) \/ NameWithoutKind(arg.data))
       => /\ ReturnedWith(1, IF hasId(arg.data) THEN ErrorNoTagOptionType
                        ELSE ErrorInterfaceHasNoIdField)'
          /\ requests' = requests]_vars

AddVRefusal ==
    /\ fn = "returned" /\ ReturnedWith(1, ErrorNoTagOptionType)
    /\ hasId(arg.data) /\ NameWithoutKind(arg.data) /\ requests = <<>>

\* C18: AddV fails with NoIdField if the record has no Id field, with the
\* missing-tag-option error if an annotated field has a name but no kind
\* option, and with NoGraphTags if no field of the record contributes a
\* property; in each case no frame is placed on the request queue.
C18_AddVErrors ==
    [][Built
       => /\ ~hasId(arg.data) => ReturnedWith(1, ErrorInterfaceHasNoIdField)'
          /\ hasId(arg.data) /\ NameWithoutKind(arg.data)
                => ReturnedWith(1, ErrorNoTagOptionType)'
          /\ hasId(arg.data) /\ NoAnnotation(arg.data)
                => ReturnedWith(1, ErrorNoGraphTags)'
          /\ ~hasId(arg.data) \/ NameWithoutKind(arg.data) \/ NoAnnotation(arg.data)
                => requests' = requests]_vars

\* The string literals of a query as Gremlin reads them: a literal runs from
\* a quotation mark to the next one that no backslash precedes, and a
\* backslash stands for the character after it.
RECURSIVE LiteralsFrom(_, _, _, _)
LiteralsFrom(q, i, inside, cur) ==
    IF i > Len(q) THEN (IF inside THEN <<cur>> ELSE <<>>)
    ELSE IF ~inside
    THEN LiteralsFrom(q, i + 1, q[i] = "'", <<>>)
    ELSE IF q[i] = "'" THEN <<cur>> \o LiteralsFrom(q, i + 1, FALSE, <<>>)
    ELSE IF q[i] = "\\" /\ i < Len(q)
    THEN LiteralsFrom(q, i + 2, TRUE, Append(cur, q[i + 1]))
    ELSE LiteralsFrom(q, i + 1, TRUE, Append(cur, q[i]))

Literals(q) == LiteralsFrom(q, 1, FALSE, <<>>)

\* the caller's string with a backslash before each ', " and \
RECURSIVE Escaped(_)
Escaped(str) ==
    IF str = <<>> THEN <<>>
    ELSE (IF Head(str) \in {"'", "\"", "\\"} THEN <<"\\">> ELSE <<>>)
            \o <<Head(str)>> \o Escaped(Tail(str))

\* the strings a field of a record puts into literals: its name with each
\* step, and the element when the kind is one of strings
RECURSIVE FieldStrings(_, _)
FieldStrings(f, i) ==
    IF i > Len(f.val) \/ (f.name = "" /\ f.opts = "") THEN <<>>
    ELSE <<<<f.name>>>>
            \o (IF f.opts \in {"string", "partitionKey", "[]string"}
                THEN <<f.val[i]>> ELSE <<>>)
            \o FieldStrings(f, i + 1)

RECURSIVE RecordStrings(_, _)
RecordStrings(d, i) ==
    IF i > Len(d) THEN <<>> ELSE FieldStrings(d[i], 1) \o RecordStrings(d, i + 1)

\* the literals of a query AddV hands to Execute read back as the label, the
\* property names and the caller's strings
AddVLiteralsReadBack ==
    fn = "returned" /\ val # <<>> /\ Annotated(arg.data)
        => Literals(val) = <<<<arg.label>>>> \o RecordStrings(arg.data, 1)

AddVLiteralRead ==
    /\ fn = "returned" /\ val # <<>> /\ Annotated(arg.data)
    /\ \E i \in 1..Len(arg.data) :
          arg.data[i].opts = "[]string" /\ arg.data[i].val = <<<<"\"", "a">>, <<"a">>>>
    /\ \E i \in 1..Len(arg.data) : arg.data[i].val = <<<<"'">>>>

\* the steps of the entries of a property map in the order o, every string
\* value and every slice element escaped
RECURSIVE EntrySteps(_, _, _)
EntrySteps(k, v, i) ==
    IF i > Len(v.val) THEN <<>>
    ELSE <<".property(", "'", k, "'", ", ">>
            \o (IF v.kind \in {"string", "slice"}
                THEN <<"'">> \o Escaped(v.val[i]) \o <<"'">>
                ELSE v.val[i])
            \o <<")">> \o EntrySteps(k, v, i + 1)

RECURSIVE MapSteps(_, _, _)
MapSteps(props, o, i) ==
    IF i > Len(o) THEN <<>>
    ELSE EntrySteps(o[i], props[o[i]], 1) \o MapSteps(props, o, i + 1)

RECURSIVE EntryStrings(_, _, _)
EntryStrings(k, v, i) ==
    IF i > Len(v.val) THEN <<>>
    ELSE <<<<k>>>> \o (IF v.kind \in {"string", "slice"} THEN <<v.val[i]>> ELSE <<>>)
            \o EntryStrings(k, v, i + 1)

RECURSIVE MapStrings(_, _, _)
MapStrings(props, o, i) ==
    IF i > Len(o) THEN <<>>
    ELSE EntryStrings(o[i], props[o[i]], 1) \o MapStrings(props, o, i + 1)

\* C19: every string literal the query builder emits from caller data is the
\* caller's string with a backslash inserted before exactly each ', " and \,
\* so that un-escaping the literal yields the original string and no caller
\* string can end its own literal; stated for the string values and slice
\* elements of the edge properties of AddEWithProps and AddEWithPropsById.
C19_LiteralsAreEscaped ==
    [][Built /\ pc'[1] = "wrapped"
       => \E o \in Orders(arg.props) :
             /\ val' = addEStep(arg.label) \o MapSteps(arg.props, o, 1)
             /\ Literals(val') = <<<<"from">>, <<arg.label>>, <<"to">>>>
                                     \o MapStrings(arg.props, o, 1)]_vars

\* a value the claim supports: a string, a bool, a number or a slice
Supported(v) == v.kind \in {"string", "bool", "int", "slice"}

\* the property names of the steps of a query, in order
RECURSIVE StepNames(_, _)
StepNames(q, i) ==
    IF i > Len(q) THEN <<>>
    ELSE (IF q[i] = ".property(" THEN <<q[i + 2]>> ELSE <<>>) \o StepNames(q, i + 1)

\* one name per scalar entry and one per slice element, in the order o
RECURSIVE EntryNames(_, _, _)
EntryNames(props, o, i) ==
    IF i > Len(o) THEN <<>>
    ELSE [j \in 1..Len(props[o[i]].val) |-> o[i]] \o EntryNames(props, o, i + 1)

\* C20: on a client that is not disposed and with endpoints that have an Id,
\* AddEWithProps and AddEWithPropsById fail with UnsupportedPropertyMap
\* whenever some value of the map is neither a string, a bool, a number nor a
\* slice, and then place no frame on the request queue; when every value is
\* supported the query handed to Execute is the AddE query followed by one
\* .property step per scalar entry and one per slice element, the entries in
\* some order of the map.
C20_EdgeProperties ==
    [][Built /\ arg.from /\ arg.to
       => IF \E k \in DOMAIN arg.props : ~Supported(arg.props[k])
          THEN /\ ReturnedWith(1, ErrorUnsupportedPropertyMap)'
               /\ requests' = requests
          ELSE /\ pc'[1] = "wrapped"
               /\ SubSeq(val', 1, 13) = addEStep(arg.label)
               /\ \E o \in Orders(arg.props) :
                     StepNames(val', 14) = EntryNames(arg.props, o, 1)]_vars

\* the frame of an edge with a slice of two and a number is on the queue
C20_Witness ==
    /\ fn = "returned" /\ pc[1] = "waiting" /\ requests # <<>>
    /\ arg.op = "AddEWithProps" /\ DOMAIN arg.props = Keys
    /\ \E k \in Keys : Len(arg.props[k].val) = 2
    /\ \E k \in Keys : arg.props[k].kind = "int"
    /\ Len(StepNames(val, 1)) = 3

\* the notifier of r receives a value in this step
Signalled(r) == notif[r] # "full" /\ notif'[r] = "full"

\* readWorker finishes saveResponse for the frame it holds
SavesFrame == HandlesFrame /\ marshalResponse(rmsg) = NoError

\* C30: saveResponse signals the notifier of a request id if and only if the
\* status code of the frame is not 206: a 206 frame only appends its data, a
\* notifier is signalled by no other step, and when the frames handled for an
\* id are 206 frames followed by one terminal frame the one signal was
\* accepted by the notifier at once (there was no second signal to wait).
C30_SignalUnlessPartial ==
    /\ [][SavesFrame /\ rmsg.code = 206
          => LET r == rmsg.requestId IN
             /\ notif'[r] = (IF notif[r] = "none" THEN "empty" ELSE notif[r])
             /\ results'[r].ok
             /\ results'[r].data
                  = (IF results[r].ok THEN results[r].data ELSE <<>>) \o rmsg.data]_vars
    /\ [][SavesFrame /\ rmsg.code # 206 /\ notif[rmsg.requestId] \in {"none", "empty"}
          => Signalled(rmsg.requestId)]_vars
    /\ [][\A r \in RIDs :
            Signalled(r) => SavesFrame /\ rmsg.requestId = r /\ rmsg.code # 206]_vars
    /\ [](\A r \in RIDs :
            PartialsThenTerminal(Codes(handled[r]))
                => ~(rpc = "sendblocked" /\ rmsg.requestId = r))

\* a 206 frame and a 200 frame were saved for a waiting request: signalled
C30_Witness ==
    \E c \in Callers :
        /\ pc[c] = "waiting"
        /\ Codes(handled[rid[c]]) = <<206, 200>>
        /\ notif[rid[c]] = "full"
        /\ Len(results[rid[c]].data) = 2

\* the step in which the writer gets past errs <- err
WriterPublished == wpc = "err" /\ wpc' # "err"

\* a failed write is followed by the publication of its error, and with it
\* Errored becomes true
WriteErrorIsPublished ==
    [][/\ (wpc = "write" /\ wpc' = "err" => werr' # NoError)
       /\ (WriterPublished => Errored' /\ werr' = NoError)]_vars

\* the writer holds a further frame after it has published a write error
\* (Errored is set while readWorker, who also sets it, has not ended)
WriterTakesFrameAfterError == Errored /\ rpc # "done" /\ wpc = "write"

\* C26: when a socket write fails in the writer loop, the writer publishes
\* the error, sets Errored to true and terminates; after that error it takes
\* no further frame from the request queue.
C26_WriterEndsOnWriteError ==
    [][WriterPublished => Errored' /\ wpc' = "done"]_vars

\* C28: a failed socket write moves the connection from Connected to
\* Disconnected: once the writer has observed and published a write error,
\* isConnected is false (no handshake and no pong takes place meanwhile).
C28_WriteErrorDisconnects ==
    [][(wpc = "write" /\ wpc' = "err") \/ WriterPublished => ~isConnected']_vars

\* a task is about to send on the request queue: a caller in dispatchRequest,
\* the reader in authenticate with credentials
CallerEnqueues(c) == pc[c] = "stored"
ReaderEnqueues == rpc = "handle" /\ rmsg.code = 407 /\ creds
QueueFull == Len(requests) = QueueCap

\* C29: the request queue never holds more than 3 frames; a caller or the
\* reader that enqueues while it holds 3 stays where it is until the writer
\* has removed a frame; the queue only changes by a frame being appended to
\* its end or by the writer taking its first frame, so that no frame is
\* dropped or overwritten.
C29_QueueIsBoundedAndBlocks ==
    /\ [](Len(requests) <= QueueCap)
    /\ [][QueueFull => /\ \A c \in Callers : CallerEnqueues(c) => pc'[c] = pc[c]
                       /\ ReaderEnqueues => rpc' = rpc /\ rmsg' = rmsg
                       /\ requests' # requests
                            => requests' = Tail(requests) /\ wpc = "select"]_vars
    /\ [][requests' # requests
             => \/ /\ ~QueueFull
                   /\ Len(requests') = Len(requests) + 1
                   /\ SubSeq(requests', 1, Len(requests)) = requests
                   /\ \/ \E c \in Callers : CallerEnqueues(c) /\ pc'[c] = "waiting"
                                               /\ requests'[Len(requests')] = prepareRequest(rid[c])
                      \/ ReaderEnqueues /\ rpc' = "check"
                                        /\ requests'[Len(requests')] = authenticateFrame(rmsg.requestId)
                \/ /\ requests # <<>>
                   /\ requests' = Tail(requests)
                   /\ wpc = "select" /\ wpc' = "write"
                   /\ wmsg' = Head(requests)]_vars
C29_Witness ==
    /\ QueueFull
    /\ ReaderEnqueues
    /\ \E c \in Callers : CallerEnqueues(c)
    /\ \E i \in 1..Len(requests) : requests[i].op = "authentication"

\* the pinger holds the error of a failed WriteControl and is sending it on errs
PingFailed == ppc = "pingerr"
\* a pong can arrive: the reader is in its socket read on an open socket
PongCanArrive == Alive /\ rpc = "read" /\ conn = "open"

AtClose ==
    /\ clpc[1] = "closing"
    /\ rpc \in {"read", "readerr", "handleerr"}
    /\ wpc \in {"select", "write", "err"}
    /\ ppc \in {"select", "pingerr"}
\* writeWorker, readWorker and Ws.ping have returned
LoopsEnded == wpc = "done" /\ rpc = "done" /\ ppc = "done"
\* C25: after Close has been called on a connected client, the writer, the
\* reader and the pinger each eventually terminate (or the process has
\* panicked), whatever the three loops were doing when Close was called.
C25_LoopsEndAfterClose == AtClose ~> (LoopsEnded \/ ~Alive)

\* the JSON value of an element of a property array
WireValue(w) == IF w.t = "string" THEN w.s ELSE IF w.t = "bool" THEN w.b ELSE w.n

\* the number lies within the range of the integer type of the field
InRange(f, n) ==
    IF f.kind = "int" THEN MinInt(f.bits) <= n /\ n <= MaxInt(f.bits)
    ELSE 0 <= n /\ n <= MaxUint(f.bits)

\* the value is one the field's kind can hold: a string for a string, a
\* boolean for a bool, and for an integer field a number within the range of
\* its type that is no larger than the largest signed value (the numbers
\* beyond are the matter of C24)
Holds(f, w) ==
    \/ f.kind = "string" /\ w.t = "string"
    \/ f.kind = "bool" /\ w.t = "bool"
    \/ f.kind \in {"int", "uint"} /\ w.t = "number" /\ InRange(f, w.n)
                                   /\ w.n <= MaxInt(WideBits)

IsId(f) == f.field = "Id"
Named(f, elem) == annotated(f) /\ ~IsId(f) /\ f.name \in DOMAIN elem.props
ScalarCase(f, elem) == Named(f, elem) /\ ~f.list /\ Len(elem.props[f.name]) = 1
ListCase(f, elem) == Named(f, elem) /\ f.list /\ Len(elem.props[f.name]) > 1

\* a vertex response for a record type whose Id carries its graph tag, in
\* which every property that has a field is an array of one value for a scalar
\* field or of several for a list field, of values the field can hold
VertexCase(type, resp) ==
    /\ resp # <<>>
    /\ \E i \in 1..Len(type) : IsId(type[i]) /\ annotated(type[i])
    /\ \A j \in 1..Len(resp), i \in 1..Len(type) :
          Named(type[i], resp[j])
             => /\ ScalarCase(type[i], resp[j]) \/ ListCase(type[i], resp[j])
                /\ \A k \in 1..Len(resp[j].props[type[i].name]) :
                      Holds(type[i], resp[j].props[type[i].name][k])

\* the response without the properties that have no field in the type
KnownOnly(type, resp) ==
    [j \in 1..Len(resp) |->
        Vertex(resp[j].id,
               [n \in {x \in DOMAIN resp[j].props : \E i \in 1..Len(type) : type[i].name = x}
                   |-> resp[j].props[n]])]

Ranged(f, w) == IF InRange(f, w.n) THEN w.n ELSE 0

\* the integer fields and list elements of the returned records that were
\* decoded from a number hold what C24 says, for the widths in bits
IntegersRanged(bits) ==
    fn = "returned" /\ val.out = "ok" /\ arg.resp # <<>>
       => \A j \in 1..Len(arg.resp), i \in 1..Len(arg.type) :
             LET f == arg.type[i]
                 elem == arg.resp[j]
                 v == val.target[j][i]
             IN  f.kind \in {"int", "uint"} /\ f.bits \in bits
                    => /\ ScalarCase(f, elem) /\ elem.props[f.name][1].t = "number"
                          => v = Ranged(f, elem.props[f.name][1])
                       /\ ListCase(f, elem)
                          => \A k \in 1..Len(v) :
                                elem.props[f.name][k].t = "number"
                                   => v[k] = Ranged(f, elem.props[f.name][k])

\* the fields narrower than 64 bits hold the wire value or zero
NarrowIntegersRanged == IntegersRanged({NarrowBits})

\* C24: an integer field of any width, signed or unsigned, that Get decodes
\* from a number on the wire ends up equal to the wire value if that value
\* lies within the range of the field's type and keeps its zero value
\* otherwise.
C24_IntegersInRangeOrZero == IntegersRanged({NarrowBits, WideBits})

\* Get has returned err, having sent nothing and left its target as it was
GetRefused(err) ==
    /\ pc[1] = "failed" /\ cerr[1] = err
    /\ requests = <<>> /\ sent = {} /\ nextId = 1
    /\ val = arg.before

\* C21: Get with a target that is not a pointer returns the not-a-pointer
\* error, with a pointer to something that is not a slice the not-a-slice
\* error, which is another error; in both cases no frame is placed on the
\* request queue and the target is unchanged; on a disposed connection it
\* returns ConnectionDisposed whatever the target is.
C21_GetShapeErrors ==
    /\ ErrorNotPtr # ErrorNotSlice
    /\ [][fn = "called" /\ fn' # "called"
            => IF isDisposed THEN GetRefused(ErrorConnectionDisposed)'
               ELSE IF arg.ptr.kind # "ptr" THEN GetRefused(ErrorNotPtr)'
               ELSE IF arg.ptr.elem # "slice" THEN GetRefused(ErrorNotSlice)'
               ELSE fn' = "running" /\ pc'[1] = "checked"]_vars
    /\ [](pc[1] = "failed" => [](requests = <<>> /\ val = arg.before))
C21_Witness ==
    /\ GetRefused(ErrorNotSlice)
    /\ arg.ptr.kind = "ptr" /\ arg.ptr.elem = "invalid"
    /\ arg.before # <<>>

\* Get has come back from executeRequest with an empty response
EmptyResponse == fn = "running" /\ pc[1] \in {"done", "timedout"} /\ result[1] = <<>>

\* C22: when the response to a Get query is empty, the request having timed
\* out included, Get returns no error and the caller's slice is exactly as it
\* was before the call.
C22_EmptyResponseLeavesTarget ==
    /\ [][EmptyResponse /\ fn' # fn
            => fn' = "returned" /\ cerr'[1] = NoError /\ val' = arg.before /\ Alive']_vars
    /\ [](fn = "running" => val = arg.before)
C22_Witness ==
    /\ fn = "returned" /\ pc[1] = "timedout" /\ result[1] = <<>> /\ cerr[1] = NoError
    /\ arg.before # <<>> /\ val = arg.before
    /\ sent # {}

\* the writer's c.conn.write and the reader's c.conn.read return
WriteReturns == wpc = "write" /\ wpc' # "write"
ReadReturns == rpc = "read" /\ rpc' # "read"

\* C34: after close has completed on the transport (disposed is latched),
\* every transport write and every transport read fails, and the error is
\* ConnectionDisposed, not an error of the socket.
C34_DisposedReadWriteFail ==
    [][isDisposed
          => /\ WriteReturns => wpc' = "err" /\ werr' = ErrorConnectionDisposed
             /\ ReadReturns => rpc' = "readerr" /\ rerr' = ErrorConnectionDisposed]_vars

\* the frames of a sequence that saveResponse has stored
Saved(frames) == SelectSeq(frames, LAMBDA f : marshalResponse(f) = NoError)
Prefix(a, b) == Len(a) <= Len(b) /\ SubSeq(b, 1, Len(a)) = a

\* the caller, woken by the signal, reads the buffer
LoadsBuffer(c) == pc[c] = "received" /\ pc'[c] # "received"

\* C31: in every interleaving of the reader with a waiting caller, a caller
\* woken by the completion signal reads a buffer that holds the data of a
\* terminal frame of its request id and of every frame stored for that id
\* before it, in order: never a buffer to which the terminal frame's data
\* has not yet been appended.
C31_AppendAndSignalAtomic ==
    [][\A c \in Callers :
          LoadsBuffer(c)
             => LET frames == Saved(handled[rid[c]])
                IN  \E k \in 1..Len(frames) :
                       /\ frames[k].code # 206
                       /\ Prefix(Concat(SubSeq(frames, 1, k)), result'[c])]_vars
C31_Witness ==
    \E c \in Callers :
        /\ pc[c] = "loaded" /\ Len(result[c]) = 1
        /\ rpc = "half" /\ rmsg.requestId = rid[c]

\* Execute returns to its caller: retrieveResponse has finished its clean-up
\* or has taken its timeout
ExecuteReturns(c) == pc[c] \notin {"done", "timedout"} /\ pc'[c] \in {"done", "timedout"}

\* C32: when Execute returns, by completion or by timeout, neither the results
\* table nor the notifier table holds an entry for the request id of the call.
C32_EntriesRemovedOnReturn ==
    [][\A c \in Callers :
          ExecuteReturns(c) => notif'[rid[c]] = "none" /\ ~results'[rid[c]].ok]_vars

\* a step that runs Ws.connect: the one of NewClient, or one of Reconnect on
\* a transport that is not connected
Connects ==
    \/ npc = "called" /\ npc' \in {"sendWSConnection", "returned"}
    \/ apc = "called" /\ apc' # "called" /\ ~isConnected

\* C33: every connect attempt, that of NewClient and each one of Reconnect,
\* dials the configured URI first (the URI it starts from carries no
\* "/gremlin" suffix), and ends with the suffix appended at most once.
C33_ConnectDialsConfiguredUriFirst ==
    [][Connects => uri = 0 /\ uri' \in {0, 1}]_vars

\* a caller of Close writes the close frame: the step of Ws.close that passes
\* the nil test and calls ws.conn.WriteMessage(websocket.CloseMessage, ...)
WritesCloseFrame(k) == clpc[k] = "idle" /\ clpc'[k] = "closing"

\* the writer loop is inside c.conn.write(msg), its frame is not yet out
WritesDataFrame == wpc = "write"

\* C35: only the writer loop writes frames to the socket at any one time: no
\* caller of Close writes the close frame while the writer loop is writing a
\* data frame.
C35_OneTaskWritesFrames ==
    [][\A k \in Closers : WritesCloseFrame(k) => ~WritesDataFrame]_vars

\* the three loops of the client are running: none has returned
WriterRuns == wpc \notin {"off", "done"}
ReaderRuns == rpc \notin {"off", "done"}
PingerRuns == ppc \notin {"off", "done"}

\* C36: while the client is connected and Close has not been called, its
\* three loops - writer, reader, pinger - are running, whatever Execute
\* calls, published transport errors and Reconnect calls came before.
C36_ThreeLoopsWhileConnected ==
    (isConnected /\ ~isDisposed /\ \A k \in Closers : clpc[k] = "idle")
       => WriterRuns /\ ReaderRuns /\ PingerRuns

\* a call of Close runs Ws.close on a transport whose socket is absent
ClosesAbsentSocket(k) == clpc[k] = "idle" /\ clpc'[k] # "idle" /\ conn = "nil"

\* C37: close on a transport whose socket is absent returns ConnectionNil
\* and changes nothing: the call has returned, disposed, connected and the
\* quit channel are as before, and so is the rest of the client.
C37_CloseOnAbsentSocket ==
    [][\A k \in Closers :
          ClosesAbsentSocket(k)
             => /\ closeError(conn) = ErrorWSConnectionNil
                /\ clpc'[k] = "returned"
                /\ UNCHANGED <<transportVars, panicked, Errored, creds, authReqId,
                               requests, sent, writerVars, readerVars, ppc, tableVars,
                               callerVars, apc, ghostVars, orderVars, sinkVars,
                               callVars>>]_vars
C37_Witness ==
    \E k \in Closers :
        clpc[k] = "returned" /\ conn = "nil" /\ ~quit /\ ~disposed /\ ~connected

\* a frame for request id r is on the request queue, in the writer's hands
\* or on the socket
Dispatched(r) ==
    \/ \E i \in 1..Len(requests) : requests[i] = prepareRequest(r)
    \/ wmsg = prepareRequest(r)
    \/ prepareRequest(r) \in sent

\* the caller of request id r is still inside executeRequest
Pending(c) == pc[c] \in {"stored", "waiting", "received", "loaded", "closed"}

\* C38: in every reachable state in which a frame for a request id is queued
\* or has been written and the caller of that id has not returned, the
\* notifier table holds the notifier of the id; and no response frame for
\* such an id is saved while its notifier is missing.
C38_NotifierBeforeDispatch ==
    /\ \A c \in Callers :
          (Pending(c) /\ Dispatched(rid[c])) => notif[rid[c]] # "none"
    /\ \A c \in Callers :
          (Pending(c) /\ rpc = "handle" /\ rmsg.requestId = rid[c])
             => notif[rid[c]] # "none"
C38_Witness ==
    \E c \in Callers :
        /\ pc[c] = "waiting" /\ prepareRequest(rid[c]) \in sent
        /\ rpc = "handle" /\ rmsg.requestId = rid[c] /\ rmsg.code = 200
        /\ notif[rid[c]] = "empty"

\* the reader is inside handleResponse with a frame saveResponse accepts,
\* and saveResponse has returned (or the process has ended in a panic)
HandlesSavedFrame == rpc = "handle" /\ marshalResponse(rmsg) = NoError
SaveReturned == rpc \notin {"handle", "sendblocked"}

\* C39: handling a response frame never blocks the reader loop for ever:
\* whatever frames the server sends, a saveResponse that has begun returns
\* (releasing the response mutex), so the reader goes on to later frames.
C39_SaveResponseReturns == HandlesSavedFrame ~> (SaveReturned \/ ~Alive)

\* a list field whose name has a property array of n >= 1 entries, as the
\* server returns it for the n property steps AddV emits for n elements
RoundTripList(f, elem) == Named(f, elem) /\ f.list /\ Len(elem.props[f.name]) >= 1

\* a vertex response written by AddV: the Id carries its graph tag, every
\* scalar field has one value, every list field one value per element, each
\* of a value its field can hold
RoundTripCase(type, resp) ==
    /\ resp # <<>>
    /\ \E i \in 1..Len(type) : IsId(type[i]) /\ annotated(type[i])
    /\ \A j \in 1..Len(resp), i \in 1..Len(type) :
          Named(type[i], resp[j])
             => /\ ScalarCase(type[i], resp[j]) \/ RoundTripList(type[i], resp[j])
                /\ \A k \in 1..Len(resp[j].props[type[i].name]) :
                      Holds(type[i], resp[j].props[type[i].name][k])

\* C40: decoding the property array of n >= 1 entries returned for a list
\* field yields, without error or panic, a list of the same n values in the
\* same order, for n = 1 as for larger n.
C40_ListRoundTrip ==
    fn = "returned" /\ RoundTripCase(arg.type, arg.resp)
       => /\ val.out = "ok" /\ val.err = NoError
          /\ \A j \in 1..Len(arg.resp), i \in 1..Len(arg.type) :
                RoundTripList(arg.type[i], arg.resp[j])
                   => LET v == val.target[j][i]
                          wire == arg.resp[j].props[arg.type[i].name]
                      IN  /\ Len(v) = Len(wire)
                          /\ \A k \in 1..Len(wire) : v[k] = WireValue(wire[k])

====
